---- MODULE Spec2Model ----
(***************************************************************************)
(* State-machine model of the geodesic core of UV-trial:                   *)
(*   - UVGeodesic::HeatGeodesicSolver (initialize, computeDistance,        *)
(*     tracePath) with its cached operators and factorizations;            *)
(*   - MeshGraphBuilder (build, MinHeap, shortestPath) of the web code.    *)
(* Floating-point values are modelled by integers; positions are taken     *)
(* from point sets whose pairwise Euclidean distances are integers, so     *)
(* that edge weights and the A* heuristic are computed exactly.            *)
(***************************************************************************)
EXTENDS Integers, Sequences, FiniteSets, TLC

\* ------------------------------------------------------------------ bounds
MaxVerts == 4
MaxFaces == 2
MaxFieldVal == 3
MaxInits == 2
MaxPoints == 5
MaxTris == 3

VARIABLES
    \* HeatGeodesicSolver members (uv_geodesic.h:98-111)
    V_, F_, laplace_, mass_, grad_, heat_matrix_, poisson_matrix_,
    heat_solver_, poisson_solver_, adjacency_, face_areas_,
    face_area_weights_, time_step_, initialized_,
    \* the caller of the solver: number of initialize calls made, the call in
    \* flight and what it returned
    \* and the solver as it was when the call was made
    inits, phase, call, ret, pre,
    \* MeshGraphBuilder members (meshGraph.ts:86-89), and the geometry the
    \* builder was constructed from (meshGraph.ts:91)
    positions, adjacency, origToMerged, avgEdgeLength, input,
    \* the call of shortestPath in flight: its arguments, its locals
    \* (meshGraph.ts:112-131), what it returned, and where it stands
    start, end, gScore, fScore, prev, closed, openSet, result, pc,
    \* the call of simplifyPath made last: its arguments and what came of it
    simplifyCall, simplified,
    \* a MinHeap on its own: the entry its last pop returned (openSet is the heap)
    lastPop,
    \* the call of resampleByArcLength made last and what it returned
    resampleCall, resampled,
    \* the call of getSmoothPath or generateClosedLoop made last and what it
    \* returned
    loopCall, loop,
    \* SegmentationStore members (store.ts:10-14), the value its last
    \* operation returned, and the number of operations made on it
    state, nextId, history, historyIndex, storeRet, ops,
    \* the run of the offline tool (example_geodesic.cpp:10-64)
    cli

solverVars == <<V_, F_, laplace_, mass_, grad_, heat_matrix_, poisson_matrix_,
                heat_solver_, poisson_solver_, adjacency_, face_areas_,
                face_area_weights_, time_step_, initialized_>>
callerVars == <<inits, phase, call, ret, pre>>
graphVars == <<positions, adjacency, origToMerged, avgEdgeLength, input>>
searchVars == <<start, end, gScore, fScore, prev, closed, openSet, result>>
simplifyVars == <<simplifyCall, simplified>>
heapVars == <<lastPop>>
resampleVars == <<resampleCall, resampled>>
loopVars == <<loopCall, loop>>
storeVars == <<state, nextId, history, historyIndex, storeRet, ops>>
cliVars == <<cli>>
appVars == <<heapVars, resampleVars, loopVars, storeVars, cliVars>>
vars == <<solverVars, callerVars, graphVars, searchVars, simplifyVars, appVars, pc>>

\* ------------------------------------------------------------- utilities
Range(s) == {s[i] : i \in 1..Len(s)}
Last(s) == s[Len(s)]
Reverse(s) == [i \in 1..Len(s) |-> s[Len(s) + 1 - i]]
MinOf(S) == CHOOSE m \in S : \A x \in S : m <= x
MaxOf(S) == CHOOSE m \in S : \A x \in S : x <= m

RECURSIVE SortedSeq(_)
SortedSeq(S) ==
    IF S = {} THEN <<>>
    ELSE LET m == MinOf(S) IN <<m>> \o SortedSeq(S \ {m})

\* A vector x of size n is the sequence x[1..n]; element i of the code
\* (0-based) is At(x, i).
At(x, i) == x[i + 1]
Count(s, v) == Cardinality({i \in 1..Len(s) : s[i] = v})

\* ------------------------------------------------------------ the inputs
\* A mesh (V, F): V is abstracted to its number of rows, F is the list of
\* index triples.  build_adjacency sorts and uniquifies the neighbour lists,
\* so neither the order of the faces nor their orientation reaches any
\* computation modelled here.  The meshes drawn are triangle strips
\* (0,1,2), (1,2,3), ... of up to MaxFaces faces over V vertices; vertices
\* past the strip are unreferenced.
StripFace(i) == <<i - 1, i, i + 1>>
Strip(k) == [i \in 1..k |-> StripFace(i)]
MinNat(a, b) == IF a < b THEN a ELSE b
FaceLists(n) ==
    {Strip(k) : k \in 0..(IF n < 3 THEN 0 ELSE MinNat(MaxFaces, n - 2))}

FieldVals == 0..MaxFieldVal
Vectors(n) == [1..n -> FieldVals]
Zeros(m) == [i \in 1..m |-> 0]
\* The fields handed to tracePath: every field of the cached size, and one
\* field of every other size (a field of the wrong size is never read).
Fields(n) == Vectors(n) \cup {Zeros(m) : m \in 0..MaxVerts}
EpsVals == {-1, 0, 1}
TimeScales == {0, 1}
Infos == {"Success", "NumericalIssue"}

\* ------------------------------------------------- operators of a mesh
\* The sparse operators are kept as terms naming what they were assembled
\* from: two operators are equal iff they were assembled from the same input.
EmptyOp == [op |-> "empty", V |-> 0, F |-> <<>>]
cotmatrix(V, F) == [op |-> "cotmatrix", V |-> V, F |-> F]
Negated(m) == [m EXCEPT !.op = "laplace"]
massmatrix(V, F) == [op |-> "massmatrix", V |-> V, F |-> F]
grad(V, F) == [op |-> "grad", V |-> V, F |-> F]
doublearea(V, F) == [op |-> "doublearea", V |-> V, F |-> F]
HalfOf(m) == [m EXCEPT !.op = "face_areas"]
Replicated3(m) == [m EXCEPT !.op = "face_area_weights"]
NoStep == [ts |-> 0, V |-> 0, F |-> <<>>]
TimeStep(time_scale, V, F) == [ts |-> time_scale, V |-> V, F |-> F]
NoSum == [A |-> EmptyOp, c |-> NoStep, B |-> EmptyOp]
HeatMatrix(mass, step, laplace) == [A |-> mass, c |-> step, B |-> laplace]
Regularization == [ts |-> 0, V |-> 0, F |-> <<>>]
PoissonMatrix(laplace, mass) == [A |-> laplace, c |-> Regularization, B |-> mass]
\* Eigen::SimplicialLLT: info() is Success until a factorization fails
NoFactor == [info |-> "Success", of |-> NoSum, factorized |-> FALSE]
Compute(matrix, info) == [info |-> info, of |-> matrix, factorized |-> TRUE]

\* ------------------------------------------------------ build_adjacency
add_edge(adj, a, b) ==
    LET first == [adj EXCEPT ![a] = Append(@, b)]
    IN  [first EXCEPT ![b] = Append(@, a)]

AddFace(adj, f) ==
    add_edge(add_edge(add_edge(adj, f[1], f[2]), f[2], f[3]), f[3], f[1])

RECURSIVE AddFaces(_, _, _)
AddFaces(adj, F, i) ==
    IF i > Len(F) THEN adj
    ELSE AddFaces(AddFace(adj, F[i]), F, i + 1)

SortUnique(neighbors) == SortedSeq(Range(neighbors))

build_adjacency(F, vertex_count) ==
    LET filled == AddFaces([v \in 0..(vertex_count - 1) |-> <<>>], F, 1)
    IN  [v \in 0..(vertex_count - 1) |-> SortUnique(filled[v])]

NoAdjacency == [v \in {} |-> <<>>]
AdjSize(adj) == Cardinality(DOMAIN adj)

\* ------------------------------------------------------------ the caller
NoCall == [op |-> "none", V |-> 0, F |-> <<>>, time_scale |-> 0,
           sources |-> <<>>, field |-> <<>>, source |-> 0, target |-> 0,
           eps |-> 0]
NoRet == [status |-> "none", error |-> "", distance |-> <<>>,
          walk |-> <<>>, vertex_indices |-> <<>>, polyline |-> <<>>,
          length |-> 0, heat_info |-> "", poisson_info |-> "", phi |-> <<>>]
SolverState ==
    [V |-> V_, F |-> F_, laplace |-> laplace_, mass |-> mass_, grad |-> grad_,
     heat_matrix |-> heat_matrix_, poisson_matrix |-> poisson_matrix_,
     heat_solver |-> heat_solver_, poisson_solver |-> poisson_solver_,
     adjacency |-> adjacency_, face_areas |-> face_areas_,
     face_area_weights |-> face_area_weights_, time_step |-> time_step_,
     initialized |-> initialized_]
\* HeatGeodesicSolver() = default
DefaultState ==
    [V |-> 0, F |-> <<>>, laplace |-> EmptyOp, mass |-> EmptyOp, grad |-> EmptyOp,
     heat_matrix |-> NoSum, poisson_matrix |-> NoSum,
     heat_solver |-> NoFactor, poisson_solver |-> NoFactor,
     adjacency |-> NoAdjacency, face_areas |-> EmptyOp,
     face_area_weights |-> EmptyOp, time_step |-> NoStep,
     initialized |-> FALSE]
\* MeshGraphBuilder: avgEdgeLength is kept as the quotient total / count
\* (0.01 is 1 / 100); a MinHeap is its array and its index map
Quotient(total, count) == [total |-> total, count |-> count]
NoEdgeLength == Quotient(0, 1)
\* A BufferGeometry without a position attribute
NoPosition ==
    [hasPosition |-> FALSE, position |-> <<>>, indexed |-> FALSE, index |-> <<>>]
\* simplifyPath: the epsilon argument (optional), the call, the outcome
NoEpsilon == [given |-> FALSE, value |-> Quotient(0, 1)]
NoSimplify == [vertexIndices |-> <<>>, epsilon |-> NoEpsilon]
NotSimplified == [status |-> "none", path |-> <<>>, keep |-> <<>>]
EmptyHeap == [heap |-> <<>>, indexMap |-> [y \in {} |-> 0]]
Throw(what) == [NoRet EXCEPT !.status = "error", !.error = what]
Crash == [NoRet EXCEPT !.status = "crash"]

\* A MinHeap on its own: no entry popped yet
NoPop == [v |-> -1, f |-> -1]
\* resampleByArcLength, getSmoothPath, generateClosedLoop: no call made
NoResample == [points |-> <<>>, spacing |-> NoEpsilon]
NotResampled == [status |-> "none", points |-> <<>>]
NoLoop == [op |-> "none", vertices |-> <<>>]
NotLooped == [status |-> "none", pathVertices |-> <<>>, pathPositions |-> <<>>]
\* The offline tool: no run started
NoRun ==
    [stage |-> "none", argv |-> <<>>, V |-> 0, F |-> <<>>, source |-> 0,
     target |-> 0, distances |-> <<>>, polyline |-> <<>>, exit |-> "none",
     file |-> [written |-> FALSE, path |-> <<>>]]

\* -------------------------------------------------------- SegmentationStore
\* store.ts:14
maxHistorySize == 50
\* currentLineId: string | undefined
noLineId == <<"undefined", 0>>
\* store.ts:135, `line-${n}`
LineId(n) == <<"line", n>>
\* store.ts:174, `${line.id}-seg-1`
SegmentId(id, n) == <<id, "seg", n>>
\* THREE.Vector3.toArray / fromArray
toArray(v) == <<v.x, v.y, v.z>>
fromArray(a) == [x |-> a[1], y |-> a[2], z |-> a[3]]
\* store.ts:50-56 and 62-68: one point of a line, serialized and back
SerializePoint(c) == [position |-> toArray(c.position)]
DeserializePoint(c) == [position |-> fromArray(c.position)]
\* store.ts:46-72.  A line is its id, its control points and its segments
\* (hasSegments is FALSE while line.segments is undefined); pathVertices,
\* pathPositions and isClosed are undefined throughout and JSON drops them.
serializeState(st) ==
    [lines |->
        [i \in 1..Len(st.lines) |->
            LET l == st.lines[i]
            IN  [id |-> l.id,
                 controlPoints |->
                     [j \in 1..Len(l.controlPoints) |->
                          SerializePoint(l.controlPoints[j])],
                 hasSegments |-> l.hasSegments,
                 segments |->
                     [k \in 1..Len(l.segments) |->
                          [id |-> l.segments[k].id,
                           points |->
                               [j \in 1..Len(l.segments[k].points) |->
                                    SerializePoint(l.segments[k].points[j])]]]]]]
\* store.ts:74-100
deserializeState(data) ==
    [lines |->
        [i \in 1..Len(data.lines) |->
            LET l == data.lines[i]
            IN  [id |-> l.id,
                 controlPoints |->
                     [j \in 1..Len(l.controlPoints) |->
                          DeserializePoint(l.controlPoints[j])],
                 hasSegments |-> l.hasSegments,
                 segments |->
                     [k \in 1..Len(l.segments) |->
                          [id |-> l.segments[k].id,
                           points |->
                               [j \in 1..Len(l.segments[k].points) |->
                                    DeserializePoint(l.segments[k].points[j])]]]]]]
\* JSON.stringify and JSON.parse: the text is kept as the value it denotes
stringify(data) == [json |-> data]
parse(text) == text.json

\* A store is the record of its members.
\* Variant of saveHistory: the index advances on every save.
saveHistoryAlwaysAdvances(S) ==
    LET kept == SubSeq(S.history, 1, S.historyIndex + 1)
        entry == [state |-> stringify(serializeState(S.state)),
                  currentLineId |-> S.state.currentLineId]
        pushed == Append(kept, entry)
    IN  IF Len(pushed) > maxHistorySize
        THEN [S EXCEPT !.history = Tail(pushed), !.historyIndex = @ + 1]
        ELSE [S EXCEPT !.history = pushed, !.historyIndex = @ + 1]
\* store.ts:21-39
saveHistory(S) ==
    LET kept == SubSeq(S.history, 1, S.historyIndex + 1)
        entry == [state |-> stringify(serializeState(S.state)),
                  currentLineId |-> S.state.currentLineId]
        pushed == Append(kept, entry)
    IN  IF Len(pushed) > maxHistorySize
        THEN [S EXCEPT !.history = Tail(pushed)]
        ELSE [S EXCEPT !.history = pushed, !.historyIndex = @ + 1]
\* store.ts:10-19: the members as declared, then the constructor
Declared ==
    [state |-> [lines |-> <<>>, currentLineId |-> noLineId], nextId |-> 1,
     history |-> <<>>, historyIndex |-> -1]
SegmentationStore == saveHistory(Declared)
\* store.ts:102-108
canUndo(S) == S.historyIndex > 0
canRedo(S) == S.historyIndex < Len(S.history) - 1
\* store.ts:114-117 and 126-129: the state taken from the entry at the index
Restore(S) ==
    LET entry == S.history[S.historyIndex + 1]
        savedState == parse(entry.state)
    IN  [S EXCEPT !.state = [lines |-> deserializeState(savedState).lines,
                             currentLineId |-> entry.currentLineId]]
\* store.ts:110-120; the operations return the store and the value returned
undo(S) ==
    IF ~canUndo(S) THEN [store |-> S, value |-> FALSE]
    ELSE [store |-> Restore([S EXCEPT !.historyIndex = @ - 1]), value |-> TRUE]
\* store.ts:122-132
redo(S) ==
    IF ~canRedo(S) THEN [store |-> S, value |-> FALSE]
    ELSE [store |-> Restore([S EXCEPT !.historyIndex = @ + 1]), value |-> TRUE]
\* store.ts:134-143
startLine(S, saveToHistory) ==
    LET id == LineId(S.nextId)
        line == [id |-> id, controlPoints |-> <<>>, hasSegments |-> FALSE,
                 segments |-> <<>>]
        pushed == [S EXCEPT !.nextId = @ + 1,
                            !.state.currentLineId = id,
                            !.state.lines = Append(@, line)]
    IN  [store |-> IF saveToHistory THEN saveHistory(pushed) ELSE pushed,
         value |-> id]
\* store.ts:145-148
finishLine(S) ==
    [store |-> saveHistory([S EXCEPT !.state.currentLineId = noLineId]),
     value |-> noLineId]
\* store.ts:157-162
clear(S) ==
    [store |-> [state |-> [lines |-> <<>>, currentLineId |-> noLineId],
                nextId |-> 1, history |-> <<>>, historyIndex |-> -1],
     value |-> noLineId]
\* store.ts:244-247: the position of the current line in lines, 0 if none
currentLine(S) ==
    IF S.state.currentLineId = noLineId THEN 0
    ELSE LET found == {i \in 1..Len(S.state.lines) :
                          S.state.lines[i].id = S.state.currentLineId}
         IN  IF found = {} THEN 0 ELSE CHOOSE i \in found : \A j \in found : i <= j
\* store.ts:164-190, with a THREE.Vector3 as argument
addControlPoint(S, sp) ==
    LET started == IF currentLine(S) = 0 THEN startLine(S, FALSE).store ELSE S
        at == currentLine(started)
        line == started.state.lines[at]
        withSegment ==
            IF Len(line.segments) = 0
            THEN [line EXCEPT !.hasSegments = TRUE,
                              !.segments = <<[id |-> SegmentId(line.id, 1),
                                              points |-> <<>>]>>]
            ELSE line
        point == [position |-> sp]
        pushed == [withSegment EXCEPT
                      !.controlPoints = Append(@, point),
                      !.segments[Len(withSegment.segments)].points =
                          Append(@, point)]
    IN  [store |-> [started EXCEPT !.state.lines[at] = pushed],
         value |-> noLineId]
\* store.ts:258-264
removeLine(S, id) ==
    LET kept == SelectSeq(S.state.lines, LAMBDA l : l.id # id)
        current == IF S.state.currentLineId = id THEN noLineId
                   ELSE S.state.currentLineId
    IN  [store |-> saveHistory([S EXCEPT !.state.lines = kept,
                                         !.state.currentLineId = current]),
         value |-> noLineId]
\* store.ts:42-44
saveHistorySnapshot(S) == [store |-> saveHistory(S), value |-> noLineId]
\* The store of the variables, and the variables set to a store
Store ==
    [state |-> state, nextId |-> nextId, history |-> history,
     historyIndex |-> historyIndex]
StoreIs(S) ==
    /\ state = S.state
    /\ nextId = S.nextId
    /\ history = S.history
    /\ historyIndex = S.historyIndex
NoStoreRet == [op |-> "none", value |-> noLineId]

\* The state after construction, the store apart
InitOutside ==
    /\ V_ = DefaultState.V
    /\ F_ = DefaultState.F
    /\ laplace_ = DefaultState.laplace
    /\ mass_ = DefaultState.mass
    /\ grad_ = DefaultState.grad
    /\ heat_matrix_ = DefaultState.heat_matrix
    /\ poisson_matrix_ = DefaultState.poisson_matrix
    /\ heat_solver_ = DefaultState.heat_solver
    /\ poisson_solver_ = DefaultState.poisson_solver
    /\ adjacency_ = DefaultState.adjacency
    /\ face_areas_ = DefaultState.face_areas
    /\ face_area_weights_ = DefaultState.face_area_weights
    /\ time_step_ = DefaultState.time_step
    /\ initialized_ = DefaultState.initialized
    /\ inits = 0
    /\ phase = "idle"
    /\ call = NoCall
    /\ ret = NoRet
    /\ pre = DefaultState
    /\ positions = <<>>
    /\ adjacency = <<>>
    /\ origToMerged = <<>>
    /\ avgEdgeLength = NoEdgeLength
    /\ input = NoPosition
    /\ simplifyCall = NoSimplify
    /\ simplified = NotSimplified
    /\ start = 0
    /\ end = 0
    /\ gScore = <<>>
    /\ fScore = <<>>
    /\ prev = <<>>
    /\ closed = <<>>
    /\ openSet = EmptyHeap
    /\ result = <<>>
    /\ pc = "unbuilt"
    /\ lastPop = NoPop
    /\ resampleCall = NoResample
    /\ resampled = NotResampled
    /\ loopCall = NoLoop
    /\ loop = NotLooped
    /\ cli = NoRun
    /\ storeRet = NoStoreRet
    /\ ops = 0
Init == InitOutside /\ StoreIs(SegmentationStore)

\* ---------------------------------------- HeatGeodesicSolver::initialize
EmptyMesh(V, F) == V = 0 \/ Len(F) = 0
BadTimeScale(time_scale) == time_scale <= 0
FactorizationFailed(solver) == solver.info # "Success"

Initialize(V, F, time_scale) ==
    /\ phase = "idle"
    /\ inits < MaxInits
    /\ inits' = inits + 1
    /\ phase' = "returned"
    /\ pre' = SolverState
    /\ call' = [NoCall EXCEPT !.op = "initialize", !.V = V, !.F = F,
                              !.time_scale = time_scale]
    /\ UNCHANGED <<graphVars, simplifyVars, appVars, searchVars, pc>>
    /\ IF EmptyMesh(V, F)
       THEN /\ ret' = Throw("invalid_argument: non-empty mesh required")
            /\ UNCHANGED solverVars
       ELSE IF BadTimeScale(time_scale)
       THEN /\ ret' = Throw("invalid_argument: time_scale must be positive")
            /\ UNCHANGED solverVars
       ELSE
        /\ V_' = V
        /\ F_' = F
        /\ laplace_' = Negated(cotmatrix(V_', F_'))
        /\ mass_' = massmatrix(V_', F_')
        /\ time_step_' = TimeStep(time_scale, V_', F_')
        /\ heat_matrix_' = HeatMatrix(mass_', time_step_', laplace_')
        /\ poisson_matrix_' = PoissonMatrix(laplace_', mass_')
        /\ \E heat_info \in Infos : heat_solver_' = Compute(heat_matrix_', heat_info)
        /\ IF FactorizationFailed(heat_solver_')
           THEN /\ ret' = Throw("runtime_error: heat factorization failed")
                /\ UNCHANGED <<poisson_solver_, grad_, face_areas_,
                               face_area_weights_, adjacency_, initialized_>>
           ELSE
            /\ \E poisson_info \in Infos :
                   poisson_solver_' = Compute(poisson_matrix_', poisson_info)
            /\ IF FactorizationFailed(poisson_solver_')
               THEN /\ ret' = Throw("runtime_error: Poisson factorization failed")
                    /\ UNCHANGED <<grad_, face_areas_, face_area_weights_,
                                   adjacency_, initialized_>>
               ELSE
                /\ grad_' = grad(V_', F_')
                /\ face_areas_' = HalfOf(doublearea(V_', F_'))
                /\ face_area_weights_' = Replicated3(face_areas_')
                /\ adjacency_' = build_adjacency(F_', V_')
                /\ initialized_' = TRUE
                /\ ret' = [NoRet EXCEPT !.status = "ok"]

\* The caller takes the result (or catches the exception) and goes on.
Return ==
    /\ phase = "returned"
    /\ ret.status # "crash"
    /\ phase' = "idle"
    /\ call' = NoCall
    /\ ret' = NoRet
    /\ pre' = DefaultState
    /\ UNCHANGED <<solverVars, inits, graphVars, simplifyVars, appVars, searchVars, pc>>

\* ----------------------------------- HeatGeodesicSolver::computeDistance
OutOfBounds(idx, n) == idx < 0 \/ idx >= n

\* A variant of the loop below that tests the first source only.
FirstSourceOnly(sources, i, n) ==
    IF i <= Len(sources) /\ OutOfBounds(sources[i], n) THEN i ELSE 0

\* The loop over sources (lines 120-125): the index of the first source that
\* is out of bounds, 0 when none is.
RECURSIVE FirstOutOfBounds(_, _, _)
FirstOutOfBounds(sources, i, n) ==
    IF i > Len(sources) THEN 0
    ELSE IF OutOfBounds(sources[i], n) THEN i
    ELSE FirstOutOfBounds(sources, i + 1, n)

\* What info() reports after solve(): a failed factorization stays failed
\* (solve() is const and leaves the factorization as it is); on a valid
\* factorization the solve itself reports solve_info.  solve() on a failed
\* factorization trips eigen_assert where assertions are compiled in: the
\* call then aborts instead of returning.
InfoAfterSolve(solver, solve_info) ==
    IF solver.info # "Success" THEN solver.info ELSE solve_info

\* A variant of the test of line 129 that lets every outcome pass.
HeatSolveIgnored(info) == FALSE
HeatSolveFailed(info) == info # "Success"
PoissonSolveFailed(info) == info # "Success"

\* phi.minCoeff()
minCoeff(phi) == MinOf(Range(phi))

\* Lines 157-164: shift by the minimum, clamp below at zero.
ShiftAndClamp(phi) ==
    LET reference == minCoeff(phi)
        distance == [i \in 1..Len(phi) |-> phi[i] - reference]
    IN  [i \in 1..Len(phi) |-> IF distance[i] < 0 THEN 0 ELSE distance[i]]

\* grad_ * u, grad_u.segment<3>(3 * f) for f < F_.rows() and the product with
\* face_area_weights_ are defined only when the cached gradient and weights
\* have the shape of the cached mesh.
ShapesAgree ==
    /\ grad_.V = V_
    /\ Len(grad_.F) = Len(F_)
    /\ Len(face_area_weights_.F) = Len(F_)

ComputeDistance(sources) ==
    /\ phase = "idle"
    /\ phase' = "returned"
    /\ pre' = SolverState
    /\ call' = [NoCall EXCEPT !.op = "computeDistance", !.sources = sources]
    /\ UNCHANGED <<solverVars, inits, graphVars, simplifyVars, appVars, searchVars, pc>>
    /\ LET n == V_ IN
       IF ~initialized_
       THEN ret' = Throw("runtime_error: initialize must be called first")
       ELSE IF Len(sources) = 0
       THEN ret' = Throw("invalid_argument: source required")
       ELSE IF FirstOutOfBounds(sources, 1, n) # 0
       THEN ret' = Throw("out_of_range: source index")
       ELSE
        \/ /\ FactorizationFailed(heat_solver_)
           /\ ret' = Crash
        \/ \E heat_solve \in Infos :
            LET heat_info == InfoAfterSolve(heat_solver_, heat_solve) IN
            IF HeatSolveFailed(heat_info)
            THEN ret' = [Throw("runtime_error: heat solve failed")
                             EXCEPT !.heat_info = heat_info]
            ELSE
             \/ /\ ~ShapesAgree \/ FactorizationFailed(poisson_solver_)
                /\ ret' = Crash
             \/ \E poisson_solve \in Infos :
                 LET poisson_info == InfoAfterSolve(poisson_solver_, poisson_solve) IN
                 IF PoissonSolveFailed(poisson_info)
                 THEN ret' = [Throw("runtime_error: Poisson solve failed")
                                  EXCEPT !.heat_info = heat_info,
                                         !.poisson_info = poisson_info]
                 ELSE \E phi \in Vectors(poisson_solver_.of.A.V) :
                        ret' = [NoRet EXCEPT !.status = "ok",
                                             !.heat_info = heat_info,
                                             !.poisson_info = poisson_info,
                                             !.phi = phi,
                                             !.distance = ShiftAndClamp(phi)]

\* ------------------------------------------ HeatGeodesicSolver::tracePath
\* The memory a call reads: adjacency_[c] and distance_field(v) are defined
\* for c < adjacency_.size() and v < distance_field.size(); a read outside is
\* undefined behaviour and yields whatever the memory holds (junk) or
\* crashes.
AdjAt(junk_adj, c) ==
    IF c \in DOMAIN adjacency_ THEN adjacency_[c] ELSE junk_adj[c]
FieldAt(distance_field, junk_val, v) ==
    IF v < Len(distance_field) THEN At(distance_field, v) ELSE junk_val[v]

\* Variant: a neighbour no higher than the best so far qualifies too.
QualifiesOrEqual(value, descent_epsilon, best_value) ==
    value + descent_epsilon <= best_value
Qualifies(value, descent_epsilon, best_value) ==
    value + descent_epsilon < best_value

\* Lines 192-198: the scan of the neighbours of current.
RECURSIVE ScanNeighbors(_, _, _, _, _, _, _)
ScanNeighbors(nbs, i, distance_field, junk_val, descent_epsilon, best_value, best_neighbor) ==
    IF i > Len(nbs) THEN best_neighbor
    ELSE LET value == FieldAt(distance_field, junk_val, nbs[i])
         IN  IF Qualifies(value, descent_epsilon, best_value)
             THEN ScanNeighbors(nbs, i + 1, distance_field, junk_val,
                                descent_epsilon, value, nbs[i])
             ELSE ScanNeighbors(nbs, i + 1, distance_field, junk_val,
                                descent_epsilon, best_value, best_neighbor)

\* Lines 189-205: the descent loop.  Returns reversed_path and the vertices
\* whose neighbour list was scanned.
RECURSIVE Descend(_, _, _, _, _, _, _, _, _, _)
Descend(distance_field, junk_adj, junk_val, source, descent_epsilon, current, step, max_steps, reversed_path, scanned) ==
    IF ~(step < max_steps /\ current # source)
    THEN [reversed_path |-> reversed_path, scanned |-> scanned]
    ELSE LET best_neighbor ==
                 ScanNeighbors(AdjAt(junk_adj, current), 1, distance_field,
                               junk_val, descent_epsilon,
                               FieldAt(distance_field, junk_val, current),
                               current)
         IN  IF best_neighbor = current
             THEN [reversed_path |-> reversed_path,
                   scanned |-> scanned \cup {current}]
             ELSE Descend(distance_field, junk_adj, junk_val, source,
                          descent_epsilon, best_neighbor, step + 1, max_steps,
                          Append(reversed_path, best_neighbor),
                          scanned \cup {current})

\* Line 188: max_steps.  ThreeTimes is a variant with a larger budget.
ThreeTimes(n) == n * 3
MaxSteps(n) == n * 2

\* Lines 207-209.
SourceMissing(reversed_path, source) == Last(reversed_path) # source
\* A variant that appends source whether or not the walk ended there.
AlwaysWithSource(reversed_path, source) == Append(reversed_path, source)
WithSource(reversed_path, source) ==
    IF SourceMissing(reversed_path, source)
    THEN Append(reversed_path, source)
    ELSE reversed_path

\* V_.row(v)
Row(v) == v

\* The reads of a trace that fall outside the cached arrays.
ReadsOutside(n, junk_adj, scanned, path) ==
    \/ \E c \in scanned : c \notin DOMAIN adjacency_
    \/ \E c \in scanned : \E i \in 1..Len(AdjAt(junk_adj, c)) :
           AdjAt(junk_adj, c)[i] >= n
    \/ \E i \in 1..Len(path) : path[i] >= n

\* Line 176; TooShort is a variant that accepts a field longer than n.
TooShort(distance_field, n) == Len(distance_field) < n
SizeMismatch(distance_field, n) == Len(distance_field) # n

\* Junk is drawn only where a read can fall outside the cached arrays.
JunkLists == {<<>>} \cup {<<v>> : v \in 0..(MaxVerts - 1)}
JunkAdjs == [{c \in 0..(MaxVerts - 1) : c \notin DOMAIN adjacency_ /\ AdjSize(adjacency_) < V_}
                -> JunkLists]
ReadsPast(n) ==
    \/ \E c \in DOMAIN adjacency_ : \E i \in 1..Len(adjacency_[c]) :
           adjacency_[c][i] >= n
    \/ AdjSize(adjacency_) < n /\ n < MaxVerts
JunkVals(n) == [{v \in 0..(MaxVerts - 1) : v >= n /\ ReadsPast(n)} -> FieldVals]

TracePath(distance_field, source, target, descent_epsilon) ==
    /\ phase = "idle"
    /\ phase' = "returned"
    /\ pre' = SolverState
    /\ call' = [NoCall EXCEPT !.op = "tracePath", !.field = distance_field,
                              !.source = source, !.target = target,
                              !.eps = descent_epsilon]
    /\ UNCHANGED <<solverVars, inits, graphVars, simplifyVars, appVars, searchVars, pc>>
    /\ LET n == V_ IN
       IF ~initialized_
       THEN ret' = Throw("runtime_error: initialize must be called first")
       ELSE IF SizeMismatch(distance_field, n)
       THEN ret' = Throw("invalid_argument: distance_field size mismatch")
       ELSE IF OutOfBounds(source, n) \/ OutOfBounds(target, n)
       THEN ret' = Throw("out_of_range: vertex index")
       ELSE \E junk_adj \in JunkAdjs : \E junk_val \in JunkVals(n) :
            LET d == Descend(distance_field, junk_adj, junk_val, source,
                             descent_epsilon, target, 0, MaxSteps(n),
                             <<target>>, {})
                path == Reverse(WithSource(d.reversed_path, source))
            IN  \/ /\ ReadsOutside(n, junk_adj, d.scanned, path)
                   /\ ret' = Crash
                \/ ret' = [NoRet EXCEPT
                              !.status = "ok",
                              !.walk = d.reversed_path,
                              !.vertex_indices = path,
                              !.polyline = [i \in 1..Len(path) |-> Row(path[i])],
                              !.length = At(distance_field, target)]

\* ------------------------------------------------------- the environment
InitializeStep ==
    /\ phase = "idle"
    /\ \E V \in 0..MaxVerts : \E F \in FaceLists(V) : \E time_scale \in TimeScales :
           Initialize(V, F, time_scale)

\* Source lists: up to two indices, in range or just outside it.
SourceLists ==
    {<<>>} \cup {<<a>> : a \in -1..MaxVerts}
           \cup {<<a, b>> : a \in -1..MaxVerts, b \in -1..MaxVerts}

ComputeDistanceStep ==
    /\ phase = "idle"
    /\ \E sources \in SourceLists : ComputeDistance(sources)

TracePathStep ==
    /\ phase = "idle"
    /\ \E distance_field \in Fields(V_) :
         \E source \in -1..V_, target \in -1..V_ :
           \E descent_epsilon \in EpsVals :
             TracePath(distance_field, source, target, descent_epsilon)

Next ==
    \/ InitializeStep
    \/ ComputeDistanceStep
    \/ TracePathStep
    \/ Return

Spec == Init /\ [][Next]_vars

\* =========================================================================
\* MeshGraphBuilder (web/src/features/segmentation/meshGraph.ts; types.ts
\* holds a second copy of the same MinHeap and shortestPath)
\* =========================================================================
\* Coordinates are integers in units of mergeEps / 2, so that mergeEps is 2.
mergeEps == 2

\* Vertex positions are drawn from six points of the plane z = 0 whose
\* pairwise Euclidean distances are all integers (5, 9, 11, 12, 13, 14, 15,
\* 16, 20, 24, 25), so that distanceTo is computed exactly.
Points == << <<0, 0, 0>>, <<5, 0, 0>>, <<0, 12, 0>>,
             <<-9, 0, 0>>, <<16, 0, 0>>, <<0, -12, 0>> >>

\* Math.sqrt on the squared distances that occur (all perfect squares)
Sqrt(x) == CHOOSE r \in 0..x : r * r <= x /\ x < (r + 1) * (r + 1)

\* THREE.Vector3.distanceTo
distanceTo(p, q) ==
    Sqrt((p[1] - q[1]) * (p[1] - q[1]) + (p[2] - q[2]) * (p[2] - q[2])
         + (p[3] - q[3]) * (p[3] - q[3]))

\* Math.round(x / mergeEps): the nearest integer, halves rounded up
Round(x) == (2 * x + mergeEps) \div (2 * mergeEps)
key(p) == <<Round(p[1]), Round(p[2]), Round(p[3])>>

\* Float64Array fill(Infinity): a value above the weight of every path
Infinity ==
    1 + Len(Points) * MaxOf({distanceTo(Points[i], Points[j]) :
                                 i \in 1..Len(Points), j \in 1..Len(Points)})

\* A Map<number, number>
MapSet(m, k, x) == [y \in DOMAIN m \cup {k} |-> IF y = k THEN x ELSE m[y]]
MapDelete(m, k) == [y \in DOMAIN m \ {k} |-> m[y]]
Fill(n, x) == [i \in 1..n |-> x]

\* ------------------------------------------------------------ the inputs
\* A BufferGeometry: its position attribute (a list of points, absent when
\* hasPosition is false) and its index (a list of index triples, absent when
\* indexed is false: the positions then list the corners of the triangles).
Geometry(position, index) ==
    [hasPosition |-> TRUE, position |-> position, indexed |-> TRUE, index |-> index]

\* n points of Points, from the k-th on
Placed(k, n) == [i \in 1..n |-> Points[((i + k - 1) % Len(Points)) + 1]]

\* The index triples over count vertices: every a < b < c, and (0, 0, 1)
Triples(count) ==
    {<<a, b, c>> : a \in 0..(count - 1), b \in 0..(count - 1), c \in 0..(count - 1)}
Ascending(t) == t[1] < t[2] /\ t[2] < t[3]
Before(s, t) ==
    \/ s[1] < t[1]
    \/ s[1] = t[1] /\ s[2] < t[2]
    \/ s[1] = t[1] /\ s[2] = t[2] /\ s[3] < t[3]
IndexTriples(count) ==
    {t \in Triples(count) : Ascending(t)}
        \cup (IF count >= 2 THEN {<<0, 0, 1>>} ELSE {})
\* The lists of up to m index triples, in ascending order
RECURSIVE AscendingLists(_, _)
AscendingLists(count, m) ==
    IF m = 0 THEN {<<>>}
    ELSE LET shorter == AscendingLists(count, m - 1)
             longest == {index \in shorter : Len(index) = m - 1}
             next == {p \in longest \X IndexTriples(count) :
                         p[1] = <<>> \/ Before(Last(p[1]), p[2])}
         IN  shorter \cup {Append(p[1], p[2]) : p \in next}
IndexLists(count) == AscendingLists(count, MaxTris)

\* The same triangles without an index: three positions per triangle
Soup(g) ==
    [hasPosition |-> TRUE,
     position |-> [i \in 1..(3 * Len(g.index)) |->
                      At(g.position, g.index[((i - 1) \div 3) + 1][((i - 1) % 3) + 1])],
     indexed |-> FALSE, index |-> <<>>]

Indexed ==
    UNION {{Geometry(Placed(k, n), index) :
               k \in 0..(Len(Points) - 1), index \in IndexLists(n)} :
           n \in 0..MaxPoints}
Geometries ==
    {NoPosition}
        \cup Indexed
        \cup {Soup(g) : g \in {x \in Indexed : x.position = Placed(0, Len(x.position))}}

\* ---------------------------------------------------------------- MinHeap
\* heap is the array (element i of the code is At(heap, i)), indexMap the
\* Map from a vertex to its position in the array.
undefined == [v |-> -1, f |-> -1]

\* Variant of swap: the index map is left as it was.
swapEntriesOnly(h, i, j) ==
    LET a == At(h.heap, i)
        b == At(h.heap, j)
    IN  [heap |-> [h.heap EXCEPT ![i + 1] = b, ![j + 1] = a],
         indexMap |-> h.indexMap]
swap(h, i, j) ==
    LET a == At(h.heap, i)
        b == At(h.heap, j)
    IN  [heap |-> [h.heap EXCEPT ![i + 1] = b, ![j + 1] = a],
         indexMap |-> MapSet(MapSet(h.indexMap, a.v, j), b.v, i)]

RECURSIVE bubbleUp(_, _)
bubbleUp(h, idx) ==
    IF idx > 0
    THEN LET parent == (idx - 1) \div 2
         IN  IF At(h.heap, parent).f <= At(h.heap, idx).f
             THEN h
             ELSE bubbleUp(swap(h, parent, idx), parent)
    ELSE h

RECURSIVE bubbleDown(_, _)
bubbleDown(h, idx) ==
    LET n == Len(h.heap)
        left == 2 * idx + 1
        right == 2 * idx + 2
        smaller == IF left < n /\ At(h.heap, left).f < At(h.heap, idx).f
                   THEN left ELSE idx
        smallest == IF right < n /\ At(h.heap, right).f < At(h.heap, smaller).f
                    THEN right ELSE smaller
    IN  IF smallest = idx THEN h
        ELSE bubbleDown(swap(h, smallest, idx), smallest)

decreaseKey(h, v, f) ==
    IF v \notin DOMAIN h.indexMap THEN h
    ELSE LET idx == h.indexMap[v]
         IN  IF f < At(h.heap, idx).f
             THEN bubbleUp([h EXCEPT !.heap[idx + 1].f = f], idx)
             ELSE h

push(h, v, f) ==
    IF v \in DOMAIN h.indexMap THEN decreaseKey(h, v, f)
    ELSE LET pushed == Append(h.heap, [v |-> v, f |-> f])
             idx == Len(pushed) - 1
         IN  bubbleUp([heap |-> pushed, indexMap |-> MapSet(h.indexMap, v, idx)],
                      idx)

\* pop returns the entry removed (min) and leaves the heap h
PopRoot(h) ==
    LET min == h.heap[1]
        last == Last(h.heap)
        popped == SubSeq(h.heap, 1, Len(h.heap) - 1)
        deleted == MapDelete(h.indexMap, min.v)
    IN  IF Len(popped) > 0
        THEN bubbleDown([heap |-> [popped EXCEPT ![1] = last],
                         indexMap |-> MapSet(deleted, last.v, 0)], 0)
        ELSE [heap |-> popped, indexMap |-> deleted]
pop(h) ==
    IF Len(h.heap) = 0 THEN [min |-> undefined, h |-> h]
    ELSE [min |-> h.heap[1], h |-> PopRoot(h)]

\* ------------------------------------------------- MeshGraphBuilder.build
\* Lines 303-314: merge vertices.  The map holds the key of every position
\* kept, so a key is in the map iff a kept position has it.
\* MergeLast is a variant in which a later vertex of a bucket takes the
\* bucket's position over.
RECURSIVE MergeLast(_, _, _, _)
MergeLast(posAttr, i, kept, merged) ==
    IF i > Len(posAttr) THEN [positions |-> kept, origToMerged |-> merged]
    ELSE LET k == key(posAttr[i])
             has == {j \in 1..Len(kept) : key(kept[j]) = k}
             j == CHOOSE x \in has : TRUE
         IN  IF has # {}
             THEN MergeLast(posAttr, i + 1, [kept EXCEPT ![j] = posAttr[i]],
                            Append(merged, j - 1))
             ELSE MergeLast(posAttr, i + 1, Append(kept, posAttr[i]),
                            Append(merged, Len(kept)))
RECURSIVE MergeVertices(_, _, _, _)
MergeVertices(posAttr, i, kept, merged) ==
    IF i > Len(posAttr) THEN [positions |-> kept, origToMerged |-> merged]
    ELSE LET k == key(posAttr[i])
             has == {j \in 1..Len(kept) : key(kept[j]) = k}
         IN  IF has # {}
             THEN MergeVertices(posAttr, i + 1, kept,
                                Append(merged, (CHOOSE j \in has : TRUE) - 1))
             ELSE MergeVertices(posAttr, i + 1, Append(kept, posAttr[i]),
                                Append(merged, Len(kept)))

\* Line 324.  orientedKey is a variant that keeps the order of the ends.
orientedKey(a, b) == <<a, b>>
edgeKey(a, b) == IF a < b THEN <<a, b>> ELSE <<b, a>>

\* g holds adjacency, edgeSet, totalEdgeLength and edgeCount.  addEdgeOneWay
\* is a variant without the entry of line 330.
addEdgeOneWay(g, kept, a, b) ==
    IF a = b THEN g
    ELSE IF edgeKey(a, b) \in g.edgeSet THEN g
    ELSE LET w == distanceTo(At(kept, a), At(kept, b))
         IN  [adjacency |-> [g.adjacency EXCEPT ![a + 1] = Append(@, [v |-> b, w |-> w])],
              edgeSet |-> g.edgeSet \cup {edgeKey(a, b)},
              totalEdgeLength |-> g.totalEdgeLength + w,
              edgeCount |-> g.edgeCount + 1]
addEdge(g, kept, a, b) ==
    IF a = b THEN g
    ELSE IF edgeKey(a, b) \in g.edgeSet THEN g
    ELSE LET w == distanceTo(At(kept, a), At(kept, b))
             toB == [g.adjacency EXCEPT ![a + 1] = Append(@, [v |-> b, w |-> w])]
         IN  [adjacency |-> [toB EXCEPT ![b + 1] = Append(@, [v |-> a, w |-> w])],
              edgeSet |-> g.edgeSet \cup {edgeKey(a, b)},
              totalEdgeLength |-> g.totalEdgeLength + w,
              edgeCount |-> g.edgeCount + 1]

addTriangle(g, kept, ia, ib, ic) ==
    addEdge(addEdge(addEdge(g, kept, ia, ib), kept, ib, ic), kept, ic, ia)

\* The corners (original indices) of the triangles, lines 339-353
Corners(geometry) ==
    IF geometry.indexed THEN geometry.index
    ELSE [t \in 1..(Len(geometry.position) \div 3) |->
             <<3 * t - 3, 3 * t - 2, 3 * t - 1>>]

RECURSIVE AddTriangles(_, _, _, _, _)
AddTriangles(g, kept, merged, corners, t) ==
    IF t > Len(corners) THEN g
    ELSE AddTriangles(addTriangle(g, kept, At(merged, corners[t][1]),
                                  At(merged, corners[t][2]),
                                  At(merged, corners[t][3])),
                      kept, merged, corners, t + 1)

DefaultEdgeLength == Quotient(1, 100)

build(geometry) ==
    LET m == MergeVertices(geometry.position, 1, <<>>, <<>>)
        g == AddTriangles([adjacency |-> Fill(Len(m.positions), <<>>),
                           edgeSet |-> {}, totalEdgeLength |-> 0, edgeCount |-> 0],
                          m.positions, m.origToMerged, Corners(geometry), 1)
    IN  [positions |-> m.positions,
         adjacency |-> g.adjacency,
         origToMerged |-> m.origToMerged,
         avgEdgeLength |-> IF g.edgeCount > 0
                           THEN Quotient(g.totalEdgeLength, g.edgeCount)
                           ELSE DefaultEdgeLength]

\* new MeshGraphBuilder(geometry)
Construct(geometry) ==
    /\ pc = "unbuilt"
    /\ input' = geometry
    /\ IF ~geometry.hasPosition
       THEN /\ pc' = "error: Geometry missing position attribute"
            /\ UNCHANGED <<positions, adjacency, origToMerged, avgEdgeLength>>
       ELSE /\ positions' = build(geometry).positions
            /\ adjacency' = build(geometry).adjacency
            /\ origToMerged' = build(geometry).origToMerged
            /\ avgEdgeLength' = build(geometry).avgEdgeLength
            /\ pc' = "idle"
    /\ UNCHANGED <<searchVars, simplifyVars, appVars, solverVars, callerVars>>

\* ------------------------------------------ MeshGraphBuilder.shortestPath
\* Lines 113-114: what is returned before the search starts.
\* SelfFirst is a variant with the two tests in the other order.
SelfFirst(s, e, n) ==
    IF s = e THEN "self"
    ELSE IF s < 0 \/ s >= n \/ e < 0 \/ e >= n THEN "empty"
    ELSE "search"
EarlyReturn(s, e, n) ==
    IF s < 0 \/ s >= n \/ e < 0 \/ e >= n THEN "empty"
    ELSE IF s = e THEN "self"
    ELSE "search"

\* squaredHeuristic is a variant that uses Vector3.distanceToSquared, which
\* is not a lower bound of the remaining path length.
distanceToSquared(p, q) ==
    (p[1] - q[1]) * (p[1] - q[1]) + (p[2] - q[2]) * (p[2] - q[2])
        + (p[3] - q[3]) * (p[3] - q[3])
squaredHeuristic(p, endPos) == distanceToSquared(p, endPos)
\* heuristic(v), with this.positions[v] for p
heuristic(p, endPos) == distanceTo(p, endPos)

\* Variant of RelaxNeighbors: closed neighbours are relaxed too, and a route
\* of equal length replaces the one found before.
RECURSIVE RelaxAnyNeighbor(_, _, _, _, _, _)
RelaxAnyNeighbor(s, u, neighbors, i, isClosed, endPos) ==
    IF i > Len(neighbors) THEN s
    ELSE LET neighbor == neighbors[i].v
             w == neighbors[i].w
             tentativeG == At(s.gScore, u) + w
             f == tentativeG + heuristic(At(positions, neighbor), endPos)
         IN  IF tentativeG <= At(s.gScore, neighbor)
             THEN RelaxAnyNeighbor(
                      [gScore |-> [s.gScore EXCEPT ![neighbor + 1] = tentativeG],
                       fScore |-> [s.fScore EXCEPT ![neighbor + 1] = f],
                       prev |-> [s.prev EXCEPT ![neighbor + 1] = u],
                       openSet |-> push(s.openSet, neighbor, f)],
                      u, neighbors, i + 1, isClosed, endPos)
             ELSE RelaxAnyNeighbor(s, u, neighbors, i + 1, isClosed, endPos)
\* Lines 138-148: the loop over the neighbours of u; s holds gScore, fScore,
\* prev and openSet.
RECURSIVE RelaxNeighbors(_, _, _, _, _, _)
RelaxNeighbors(s, u, neighbors, i, isClosed, endPos) ==
    IF i > Len(neighbors) THEN s
    ELSE LET neighbor == neighbors[i].v
             w == neighbors[i].w
             tentativeG == At(s.gScore, u) + w
             f == tentativeG + heuristic(At(positions, neighbor), endPos)
         IN  IF At(isClosed, neighbor) = 1
             THEN RelaxNeighbors(s, u, neighbors, i + 1, isClosed, endPos)
             ELSE IF tentativeG < At(s.gScore, neighbor)
             THEN RelaxNeighbors(
                      [gScore |-> [s.gScore EXCEPT ![neighbor + 1] = tentativeG],
                       fScore |-> [s.fScore EXCEPT ![neighbor + 1] = f],
                       prev |-> [s.prev EXCEPT ![neighbor + 1] = u],
                       openSet |-> push(s.openSet, neighbor, f)],
                      u, neighbors, i + 1, isClosed, endPos)
             ELSE RelaxNeighbors(s, u, neighbors, i + 1, isClosed, endPos)

\* Lines 112-131: the range check, the self path, and the set-up of a search.
ShortestPath(s, e) ==
    /\ pc = "idle"
    /\ start' = s
    /\ end' = e
    /\ LET n == Len(positions)
           early == EarlyReturn(s, e, n)
       IN  IF early = "empty"
           THEN /\ result' = <<>>
                /\ pc' = "returned"
                /\ UNCHANGED <<gScore, fScore, prev, closed, openSet>>
           ELSE IF early = "self"
           THEN /\ result' = <<s>>
                /\ pc' = "returned"
                /\ UNCHANGED <<gScore, fScore, prev, closed, openSet>>
           ELSE /\ gScore' = [Fill(n, Infinity) EXCEPT ![s + 1] = 0]
                /\ fScore' = [Fill(n, Infinity) EXCEPT
                                 ![s + 1] = heuristic(At(positions, s),
                                                      At(positions, e))]
                /\ prev' = Fill(n, -1)
                /\ closed' = Fill(n, 0)
                /\ openSet' = push(EmptyHeap, s, At(fScore', s))
                /\ pc' = "search"
                /\ UNCHANGED result
    /\ UNCHANGED <<graphVars, simplifyVars, appVars, solverVars, callerVars>>

\* Lines 133-149: one iteration of the while loop.
Iterate ==
    /\ pc = "search"
    /\ Len(openSet.heap) > 0
    /\ LET current == pop(openSet)
           u == current.min.v
       IN  IF u = end
           THEN /\ openSet' = current.h
                /\ pc' = "rebuild"
                /\ UNCHANGED <<gScore, fScore, prev, closed>>
           ELSE IF At(closed, u) = 1
           THEN /\ openSet' = current.h
                /\ UNCHANGED <<gScore, fScore, prev, closed, pc>>
           ELSE LET isClosed == [closed EXCEPT ![u + 1] = 1]
                    s == RelaxNeighbors(
                             [gScore |-> gScore, fScore |-> fScore, prev |-> prev,
                              openSet |-> current.h],
                             u, At(adjacency, u), 1, isClosed, At(positions, end))
                IN  /\ closed' = isClosed
                    /\ gScore' = s.gScore
                    /\ fScore' = s.fScore
                    /\ prev' = s.prev
                    /\ openSet' = s.openSet
                    /\ UNCHANGED pc
    /\ UNCHANGED <<start, end, result, graphVars, simplifyVars, appVars, solverVars, callerVars>>

\* Line 133: the loop ends with the open set empty.
Exhausted ==
    /\ pc = "search"
    /\ Len(openSet.heap) = 0
    /\ pc' = "rebuild"
    /\ UNCHANGED <<searchVars, graphVars, simplifyVars, appVars, solverVars, callerVars>>

\* Lines 156-161
RECURSIVE Chain(_, _)
Chain(prevOf, v) ==
    IF v = -1 THEN <<>> ELSE <<v>> \o Chain(prevOf, At(prevOf, v))
\* Unreversed is a variant without path.reverse().
Unreversed(prevOf, v) == Chain(prevOf, v)
ReconstructPath(prevOf, v) == Reverse(Chain(prevOf, v))

\* Lines 152-162
Rebuild ==
    /\ pc = "rebuild"
    /\ result' = IF At(prev, end) = -1 /\ start # end
                 THEN <<>>
                 ELSE ReconstructPath(prev, end)
    /\ pc' = "returned"
    /\ UNCHANGED <<start, end, gScore, fScore, prev, closed, openSet,
                   graphVars, simplifyVars, appVars, solverVars, callerVars>>

\* The caller takes the path; the locals of the call are gone.
ReturnPath ==
    /\ pc = "returned"
    /\ pc' = "idle"
    /\ start' = 0
    /\ end' = 0
    /\ gScore' = <<>>
    /\ fScore' = <<>>
    /\ prev' = <<>>
    /\ closed' = <<>>
    /\ openSet' = EmptyHeap
    /\ result' = <<>>
    /\ UNCHANGED <<graphVars, simplifyVars, appVars, solverVars, callerVars>>

ConstructStep ==
    /\ pc = "unbuilt"
    /\ \E geometry \in Geometries : Construct(geometry)

ShortestPathStep ==
    /\ pc = "idle"
    /\ \E s \in -1..Len(positions), e \in -1..Len(positions) : ShortestPath(s, e)

NextGraph ==
    \/ ConstructStep
    \/ ShortestPathStep
    \/ Iterate
    \/ Exhausted
    \/ Rebuild
    \/ ReturnPath

SpecGraph == Init /\ [][NextGraph]_vars

\* ------------------------------------------------- a MinHeap on its own
\* meshGraph.ts:11-83.  The heap is openSet; vertices and keys are drawn from
\* 0..MaxHeapVert and 0..MaxKey.
MaxHeapVert == 3
MaxKey == 3
HeapPush(v, f) ==
    /\ pc = "unbuilt"
    /\ openSet' = push(openSet, v, f)
    /\ UNCHANGED <<start, end, gScore, fScore, prev, closed, result, pc,
                   graphVars, simplifyVars, solverVars, callerVars, appVars>>
HeapPop ==
    /\ pc = "unbuilt"
    /\ LET current == pop(openSet)
       IN  /\ openSet' = current.h
           /\ lastPop' = current.min
    /\ UNCHANGED <<start, end, gScore, fScore, prev, closed, result, pc,
                   graphVars, simplifyVars, solverVars, callerVars,
                   resampleVars, loopVars, storeVars, cliVars>>
HeapPushStep == \E v \in 0..MaxHeapVert, f \in 0..MaxKey : HeapPush(v, f)
NextHeap ==
    \/ HeapPushStep
    \/ HeapPop
SpecHeap == Init /\ [][NextHeap]_vars

\* ------------------------------------------ MeshGraphBuilder.simplifyPath
\* Distances are compared exactly: a distance is kept as the quotient
\* total / count of its square, an epsilon as a quotient.
subVectors(p, q) == <<p[1] - q[1], p[2] - q[2], p[3] - q[3]>>
dot(p, q) == p[1] * q[1] + p[2] * q[2] + p[3] * q[3]
lengthSq(p) == dot(p, p)

\* Lines 207-221: dist, the distance of point from the chord, squared.  t is
\* projection * lineLength, so projection <= 0 iff t <= 0 and
\* projection >= lineLength iff t >= lineLength^2.
SegmentDistance(point, lineStart, lineEnd) ==
    LET lineDir == subVectors(lineEnd, lineStart)
        toPoint == subVectors(point, lineStart)
        t == dot(toPoint, lineDir)
    IN  IF t <= 0 THEN Quotient(lengthSq(toPoint), 1)
        ELSE IF t >= lengthSq(lineDir)
        THEN Quotient(lengthSq(subVectors(point, lineEnd)), 1)
        ELSE Quotient(lengthSq(toPoint) * lengthSq(lineDir) - t * t,
                      lengthSq(lineDir))

\* p < q for quotients that are not negative, compared by their integer
\* parts and then by the reciprocals of their fractional parts (no product
\* is formed, so that large numerators do not overflow)
RECURSIVE Below(_, _)
Below(p, q) ==
    LET wp == p.total \div p.count
        wq == q.total \div q.count
        rp == p.total % p.count
        rq == q.total % q.count
    IN  IF wp # wq THEN wp < wq
        ELSE IF rq = 0 THEN FALSE
        ELSE IF rp = 0 THEN TRUE
        ELSE Below(Quotient(q.count, rq), Quotient(p.count, rp))
\* dist > maxDist, both squared distances
Farther(dist, maxDist) == Below(maxDist, dist)

\* Lines 203-227: the scan of the points strictly between start and end (startIdx, endIdx)
RECURSIVE Farthest(_, _, _, _, _, _)
Farthest(points, startIdx, endIdx, i, maxDist, maxIndex) ==
    IF i >= endIdx THEN [maxDist |-> maxDist, maxIndex |-> maxIndex]
    ELSE LET dist == SegmentDistance(At(points, i), At(points, startIdx), At(points, endIdx))
         IN  IF Farther(dist, maxDist)
             THEN Farthest(points, startIdx, endIdx, i + 1, dist, i)
             ELSE Farthest(points, startIdx, endIdx, i + 1, maxDist, maxIndex)

\* Line 230: maxDist > epsilon, maxDist a squared distance.  AtLeast is a
\* variant that also accepts a distance equal to epsilon.
AtLeast(maxDist, epsilon) ==
    \/ epsilon.total < 0
    \/ ~Below(maxDist, Quotient(epsilon.total * epsilon.total,
                                epsilon.count * epsilon.count))
Exceeds(maxDist, epsilon) ==
    \/ epsilon.total < 0
    \/ Below(Quotient(epsilon.total * epsilon.total,
                      epsilon.count * epsilon.count), maxDist)

\* Lines 186-235.  When maxDist > epsilon with maxIndex = start (no point
\* was farther than 0 and epsilon is negative) the second recursive call is
\* the present call again, with keep as it is now: the recursion runs until
\* the stack is exhausted (overflow).
RECURSIVE douglasPeuckerRecursive(_, _, _, _, _)
douglasPeuckerRecursive(points, startIdx, endIdx, epsilon, keep) ==
    IF endIdx - startIdx < 2 THEN [keep |-> keep, overflow |-> FALSE]
    ELSE LET lineLengthSq == lengthSq(subVectors(At(points, endIdx), At(points, startIdx)))
             far == IF lineLengthSq > 0
                    THEN Farthest(points, startIdx, endIdx, startIdx + 1, Quotient(0, 1), startIdx)
                    ELSE [maxDist |-> Quotient(0, 1), maxIndex |-> startIdx]
             kept == [keep EXCEPT ![far.maxIndex + 1] = TRUE]
         IN  IF ~Exceeds(far.maxDist, epsilon)
             THEN [keep |-> keep, overflow |-> FALSE]
             ELSE IF far.maxIndex = startIdx
             THEN [keep |-> kept, overflow |-> TRUE]
             ELSE LET left == douglasPeuckerRecursive(points, startIdx, far.maxIndex,
                                                      epsilon, kept)
                  IN  IF left.overflow THEN left
                      ELSE douglasPeuckerRecursive(points, far.maxIndex, endIdx,
                                                   epsilon, left.keep)

\* vertexIndices.filter((_, i) => keep[i])
RECURSIVE filter(_, _, _)
filter(vertexIndices, keep, i) ==
    IF i > Len(vertexIndices) THEN <<>>
    ELSE IF keep[i] THEN <<vertexIndices[i]>> \o filter(vertexIndices, keep, i + 1)
    ELSE filter(vertexIndices, keep, i + 1)

\* Lines 170-184.  epsilon ?? this.avgEdgeLength * 0.1
simplifyPath(vertexIndices, epsilon) ==
    IF Len(vertexIndices) <= 2
    THEN [status |-> "ok", path |-> vertexIndices,
          keep |-> Fill(Len(vertexIndices), TRUE)]
    ELSE LET eps == IF epsilon.given THEN epsilon.value
                    ELSE Quotient(avgEdgeLength.total, avgEdgeLength.count * 10)
             points == [i \in 1..Len(vertexIndices) |-> At(positions, vertexIndices[i])]
             ends == [i \in 1..Len(points) |-> i = 1 \/ i = Len(points)]
             done == douglasPeuckerRecursive(points, 0, Len(points) - 1, eps, ends)
         IN  IF done.overflow
             THEN [status |-> "RangeError: Maximum call stack size exceeded",
                   path |-> <<>>, keep |-> done.keep]
             ELSE [status |-> "ok", path |-> filter(vertexIndices, done.keep, 1),
                   keep |-> done.keep]

SimplifyPath(vertexIndices, epsilon) ==
    /\ pc = "idle"
    /\ pc' = "simplified"
    /\ simplifyCall' = [vertexIndices |-> vertexIndices, epsilon |-> epsilon]
    /\ simplified' = simplifyPath(vertexIndices, epsilon)
    /\ UNCHANGED <<graphVars, searchVars, solverVars, callerVars, appVars>>

\* The caller takes the result.
ReturnSimplified ==
    /\ pc = "simplified"
    /\ pc' = "idle"
    /\ simplifyCall' = NoSimplify
    /\ simplified' = NotSimplified
    /\ UNCHANGED <<graphVars, searchVars, solverVars, callerVars, appVars>>

\* Five points of the plane z = 0, far enough apart to fall in five cells:
\* three on a line, one above the middle of it, one above its end.
Plane == << <<0, 0, 0>>, <<4, 0, 0>>, <<8, 0, 0>>, <<4, 4, 0>>, <<8, 4, 0>> >>
MaxPath == 5
Epsilons ==
    {NoEpsilon} \cup {[given |-> TRUE, value |-> Quotient(e, 1)] : e \in {-1, 0, 4}}
RECURSIVE Paths(_, _)
Paths(n, m) ==
    IF m = 0 THEN {<<>>}
    ELSE Paths(n, m - 1)
             \cup {Append(p, v) : p \in {q \in Paths(n, m - 1) : Len(q) = m - 1},
                                  v \in 0..(n - 1)}

PlaceStep ==
    /\ pc = "unbuilt"
    /\ \E n \in 0..Len(Plane) : Construct(Geometry(SubSeq(Plane, 1, n), <<>>))

SimplifyPathStep ==
    /\ pc = "idle"
    /\ \E vertexIndices \in Paths(Len(positions), MaxPath) :
           \E epsilon \in Epsilons : SimplifyPath(vertexIndices, epsilon)

NextSimplify ==
    \/ PlaceStep
    \/ SimplifyPathStep
    \/ ReturnSimplified

SpecSimplify == Init /\ [][NextSimplify]_vars

\* ------------------------------------ MeshGraphBuilder.resampleByArcLength
\* types.ts:294-351.  Numbers that need not be integers are quotients
\* total / count in lowest terms, count > 0; a point of the result is the
\* triple of its coordinates as quotients.
RECURSIVE GCD(_, _)
GCD(a, b) == IF b = 0 THEN a ELSE GCD(b, a % b)
Magnitude(a) == IF a < 0 THEN 0 - a ELSE a
Lowest(total, count) ==
    LET g == GCD(Magnitude(total), Magnitude(count))
        sign == IF count < 0 THEN -1 ELSE 1
    IN  Quotient(sign * (total \div g), sign * (count \div g))
Whole(a) == Quotient(a, 1)
Plus(p, q) == Lowest(p.total * q.count + q.total * p.count, p.count * q.count)
Minus(p, q) == Lowest(p.total * q.count - q.total * p.count, p.count * q.count)
Times(p, q) == Lowest(p.total * q.total, p.count * q.count)
Over(p, q) == Lowest(p.total * q.count, p.count * q.total)
Less(p, q) == p.total * q.count < q.total * p.count
AtMost(p, q) == p.total * q.count <= q.total * p.count
\* Math.ceil of a quotient
Ceil(p) == 0 - ((0 - p.total) \div p.count)
\* THREE.Vector3.clone of a point with integer coordinates
clone(p) == <<Whole(p[1]), Whole(p[2]), Whole(p[3])>>
\* THREE.Vector3.lerpVectors(v1, v2, alpha), v1 and v2 with integer coordinates
lerpVectors(v1, v2, alpha) ==
    [k \in 1..3 |-> Plus(Whole(v1[k]), Times(Whole(v2[k] - v1[k]), alpha))]
\* The square of the distance of a point of quotients from an integer point
QuotientDistanceSq(r, p) ==
    LET dx == Minus(r[1], Whole(p[1]))
        dy == Minus(r[2], Whole(p[2]))
        dz == Minus(r[3], Whole(p[3]))
    IN  Plus(Plus(Times(dx, dx), Times(dy, dy)), Times(dz, dz))

\* Lines 298-304: segmentLengths and totalLength
SegmentLengths(points) ==
    [i \in 1..(Len(points) - 1) |-> distanceTo(points[i + 1], points[i])]
RECURSIVE SumOf(_, _)
SumOf(lens, i) == IF i > Len(lens) THEN 0 ELSE lens[i] + SumOf(lens, i + 1)
\* Line 309: spacing ?? this.avgEdgeLength * 2
TargetSpacing(spacing) ==
    IF spacing.given THEN spacing.value
    ELSE Lowest(avgEdgeLength.total * 2, avgEdgeLength.count)
\* Line 310, for a targetSpacing that is not zero
NumSamples(totalLength, targetSpacing) ==
    LET ratio == Ceil(Over(Whole(totalLength), targetSpacing)) + 1
    IN  IF 2 > ratio THEN 2 ELSE ratio
\* Lines 322-332: the samples of one segment.  w is the walk so far: result
\* and targetLength.  The inner loop pushes one sample per sampleSpacing
\* from targetLength up to segmentEnd, and stops early at numSamples points:
\* pushes is the number of its iterations.
SampleSegment(points, lens, numSamples, sampleSpacing, w, segmentIndex, segmentStart, segmentEnd) ==
    LET room == numSamples - Len(w.result)
        ahead == Over(Minus(Whole(segmentEnd), w.targetLength), sampleSpacing)
        fit == IF AtMost(w.targetLength, Whole(segmentEnd))
               THEN (ahead.total \div ahead.count) + 1
               ELSE 0
        pushes == IF room < 0 THEN 0 ELSE IF fit < room THEN fit ELSE room
        TargetAt(j) == Plus(w.targetLength, Times(Whole(j - 1), sampleSpacing))
        Interpolated(j) ==
            LET t == IF lens[segmentIndex + 1] = 0 THEN Quotient(0, 0)
                     ELSE Over(Minus(TargetAt(j), Whole(segmentStart)),
                               Whole(lens[segmentIndex + 1]))
            IN  IF t.count = 0 THEN <<t, t, t>>
                ELSE lerpVectors(points[segmentIndex + 1],
                                 points[segmentIndex + 2], t)
    IN  [result |-> w.result \o [j \in 1..pushes |-> Interpolated(j)],
         targetLength |-> TargetAt(pushes + 1)]
\* Lines 319-336: the walk over the segments
RECURSIVE SampleSegments(_, _, _, _, _, _, _)
SampleSegments(points, lens, numSamples, sampleSpacing, w, segmentIndex, segmentStart) ==
    IF Len(w.result) < numSamples /\ segmentIndex < Len(lens)
    THEN LET segmentEnd == segmentStart + lens[segmentIndex + 1]
         IN  SampleSegments(points, lens, numSamples, sampleSpacing,
                            SampleSegment(points, lens, numSamples, sampleSpacing,
                                          w, segmentIndex, segmentStart, segmentEnd),
                            segmentIndex + 1, segmentEnd)
    ELSE w.result
\* Lines 339-348: the last point of result is made the end point
EndPointFixed(samples, endPoint, sampleSpacing) ==
    IF Len(samples) > 0
    THEN LET lastPoint == Last(samples)
             tenth == Times(sampleSpacing, Quotient(1, 10))
         IN  IF lastPoint[1].count = 0
             THEN [samples EXCEPT ![Len(samples)] = clone(endPoint)]
             ELSE IF Less(Times(tenth, tenth), QuotientDistanceSq(lastPoint, endPoint))
             THEN Append(samples, clone(endPoint))
             ELSE [samples EXCEPT ![Len(samples)] = clone(endPoint)]
    ELSE samples
\* Lines 294-351.  With a spacing of zero numSamples is Infinity and
\* sampleSpacing 0: the loop of lines 319-336 pushes points[0] for ever.
resampleByArcLength(points, spacing) ==
    IF Len(points) < 2
    THEN [status |-> "ok", points |-> [i \in 1..Len(points) |-> clone(points[i])]]
    ELSE LET lens == SegmentLengths(points)
             totalLength == SumOf(lens, 1)
             targetSpacing == TargetSpacing(spacing)
         IN  IF totalLength = 0
             THEN [status |-> "ok", points |-> <<clone(points[1])>>]
             ELSE IF targetSpacing.total = 0
             THEN [status |-> "never returns", points |-> <<>>]
             ELSE LET numSamples == NumSamples(totalLength, targetSpacing)
                      sampleSpacing == Lowest(totalLength, numSamples - 1)
                      walked == SampleSegments(
                                    points, lens, numSamples, sampleSpacing,
                                    [result |-> <<clone(points[1])>>,
                                     targetLength |-> sampleSpacing], 0, 0)
                  IN  [status |-> "ok",
                       points |-> EndPointFixed(walked, Last(points), sampleSpacing)]

ResampleByArcLength(points, spacing) ==
    /\ pc = "idle"
    /\ pc' = "resampled"
    /\ resampleCall' = [points |-> points, spacing |-> spacing]
    /\ resampled' = resampleByArcLength(points, spacing)
    /\ UNCHANGED <<graphVars, searchVars, simplifyVars, solverVars, callerVars,
                   heapVars, loopVars, storeVars, cliVars>>
\* The caller takes the result.
ReturnResampled ==
    /\ pc = "resampled"
    /\ resampled.status = "ok"
    /\ pc' = "idle"
    /\ resampleCall' = NoResample
    /\ resampled' = NotResampled
    /\ UNCHANGED <<graphVars, searchVars, simplifyVars, solverVars, callerVars,
                   heapVars, loopVars, storeVars, cliVars>>

\* Polylines of up to MaxResample points on the x axis at 0..MaxAlong; the
\* builder is made from no triangle (avgEdgeLength is 0.01) or from the
\* triangle of the first three points of Plane (avgEdgeLength is 16/3).
MaxResample == 3
MaxAlong == 3
AxisPoints == {<<x, 0, 0>> : x \in 0..MaxAlong}
Polylines == UNION {[1..m -> AxisPoints] : m \in 0..MaxResample}
Spacings ==
    {NoEpsilon} \cup {[given |-> TRUE, value |-> Quotient(e, 1)] : e \in {-1, 0, 1, 2}}
ResamplePlaceStep ==
    /\ pc = "unbuilt"
    /\ \E n \in {0, 3} :
           Construct([hasPosition |-> TRUE, position |-> SubSeq(Plane, 1, n),
                      indexed |-> FALSE, index |-> <<>>])
ResampleStep ==
    /\ pc = "idle"
    /\ \E points \in Polylines :
           \E spacing \in Spacings : ResampleByArcLength(points, spacing)
NextResample ==
    \/ ResamplePlaceStep
    \/ ResampleStep
    \/ ReturnResampled
SpecResample == Init /\ [][NextResample]_vars

\* ----------------------------- shortestPath as a function of the graph
\* meshGraph.ts:133-149: the while loop, run to its end.  st holds gScore,
\* fScore, prev, closed and openSet.
RECURSIVE Search(_, _)
Search(e, st) ==
    IF Len(st.openSet.heap) = 0 THEN st
    ELSE LET current == pop(st.openSet)
             u == current.min.v
         IN  IF u = e THEN [st EXCEPT !.openSet = current.h]
             ELSE IF At(st.closed, u) = 1
             THEN Search(e, [st EXCEPT !.openSet = current.h])
             ELSE LET isClosed == [st.closed EXCEPT ![u + 1] = 1]
                      r == RelaxNeighbors(
                               [gScore |-> st.gScore, fScore |-> st.fScore,
                                prev |-> st.prev, openSet |-> current.h],
                               u, At(adjacency, u), 1, isClosed, At(positions, e))
                  IN  Search(e, [gScore |-> r.gScore, fScore |-> r.fScore,
                                 prev |-> r.prev, closed |-> isClosed,
                                 openSet |-> r.openSet])
\* meshGraph.ts:111-164
shortestPath(s, e) ==
    LET n == Len(positions)
        early == EarlyReturn(s, e, n)
    IN  IF early = "empty" THEN <<>>
        ELSE IF early = "self" THEN <<s>>
        ELSE LET h == heuristic(At(positions, s), At(positions, e))
                 st == Search(e, [gScore |-> [i \in 1..n |-> IF i = s + 1 THEN 0 ELSE Infinity],
                                  fScore |-> [i \in 1..n |-> IF i = s + 1 THEN h ELSE Infinity],
                                  prev |-> [i \in 1..n |-> -1],
                                  closed |-> [i \in 1..n |-> 0],
                                  openSet |-> push(EmptyHeap, s, h)])
             IN  IF At(st.prev, e) = -1 /\ s # e THEN <<>>
                 ELSE ReconstructPath(st.prev, e)

\* ------------------------------------------------ THREE.CatmullRomCurve3
\* types.ts:375-380 and 566-571 make a curve of type 'centripetal' and sample
\* it with getPoint.  Control points have integer coordinates whose distances
\* are squares of integers, so that every knot interval is an integer.
\* Math.pow(p.distanceToSquared(q), 0.25)
FourthRoot(x) == CHOOSE r \in 0..Sqrt(x) : r * r * r * r = x
\* The knot intervals dt0, dt1, dt2, with the guard against repeated points
KnotIntervals(p0, p1, p2, p3) ==
    LET d0 == FourthRoot(distanceToSquared(p0, p1))
        d1 == FourthRoot(distanceToSquared(p1, p2))
        d2 == FourthRoot(distanceToSquared(p2, p3))
        dt1 == IF d1 = 0 THEN 1 ELSE d1
    IN  [dt0 |-> IF d0 = 0 THEN dt1 ELSE d0, dt1 |-> dt1,
         dt2 |-> IF d2 = 0 THEN dt1 ELSE d2]
\* CubicPoly.init(x1, x2, t1, t2), then CubicPoly.calc(t)
CubicPoly(x1, x2, t1, t2, t) ==
    LET c0 == Whole(x1)
        c1 == t1
        c2 == Minus(Minus(Whole(3 * x2 - 3 * x1), Times(Whole(2), t1)), t2)
        c3 == Plus(Plus(Whole(2 * x1 - 2 * x2), t1), t2)
        t2nd == Times(t, t)
        t3rd == Times(t2nd, t)
    IN  Plus(Plus(c0, Times(c1, t)), Plus(Times(c2, t2nd), Times(c3, t3rd)))
\* CubicPoly.initNonuniformCatmullRom, then CubicPoly.calc(t).  The two
\* tangents are computed once (values drawn from sets of one element).
NonuniformCatmullRom(x0, x1, x2, x3, dt, t) ==
    LET slope1 == Plus(Minus(Quotient(x1 - x0, dt.dt0),
                             Quotient(x2 - x0, dt.dt0 + dt.dt1)),
                       Quotient(x2 - x1, dt.dt1))
        slope2 == Plus(Minus(Quotient(x2 - x1, dt.dt1),
                             Quotient(x3 - x1, dt.dt1 + dt.dt2)),
                       Quotient(x3 - x2, dt.dt2))
    IN  CHOOSE out \in {CubicPoly(x1, x2, t1, t2, t) :
                            t1 \in {Times(slope1, Whole(dt.dt1))},
                            t2 \in {Times(slope2, Whole(dt.dt1))}} : TRUE
\* Math.floor of a quotient
Floor(q) == q.total \div q.count
\* CatmullRomCurve3.getPoint: the point at weight between the control
\* points intPoint and intPoint + 1, the knot intervals computed once
PointBetween(points, isClosedCurve, intPoint, weight) ==
    LET l == Len(points)
        p1 == At(points, intPoint % l)
        p2 == At(points, (intPoint + 1) % l)
        p0 == IF isClosedCurve \/ intPoint > 0
              THEN At(points, (intPoint - 1) % l)
              ELSE [k \in 1..3 |-> points[1][k] - points[2][k] + points[1][k]]
        p3 == IF isClosedCurve \/ intPoint + 2 < l
              THEN At(points, (intPoint + 2) % l)
              ELSE [k \in 1..3 |-> points[l][k] - points[l - 1][k] + points[l][k]]
    IN  CHOOSE out \in
            {<<NonuniformCatmullRom(p0[1], p1[1], p2[1], p3[1], dt, weight),
               NonuniformCatmullRom(p0[2], p1[2], p2[2], p3[2], dt, weight),
               NonuniformCatmullRom(p0[3], p1[3], p2[3], p3[3], dt, weight)>> :
                 dt \in {KnotIntervals(p0, p1, p2, p3)}} : TRUE
\* CatmullRomCurve3.getPoint(t) of the curve through points
getPoint(points, isClosedCurve, t) ==
    LET l == Len(points)
        p == Times(Whole(l - (IF isClosedCurve THEN 0 ELSE 1)), t)
        whole == Floor(p)
        fraction == Minus(p, Whole(whole))
        atEnd == ~isClosedCurve /\ fraction.total = 0 /\ whole = l - 1
        intPoint == IF isClosedCurve
                    THEN (IF whole > 0 THEN whole
                          ELSE whole + ((Magnitude(whole) \div l) + 1) * l)
                    ELSE IF atEnd THEN l - 2 ELSE whole
        weight == IF atEnd THEN Whole(1) ELSE fraction
    IN  CHOOSE out \in
            {PointBetween(points, isClosedCurve, at, w) :
                 at \in {intPoint}, w \in {weight}} : TRUE

\* types.ts:356-383
catmullRomInterpolate(points, samplesPerSegment) ==
    IF Len(points) < 2 THEN [i \in 1..Len(points) |-> clone(points[i])]
    ELSE IF Len(points) = 2
    THEN [i \in 1..(samplesPerSegment + 1) |->
             lerpVectors(points[1], points[2], Lowest(i - 1, samplesPerSegment))]
    ELSE LET totalSamples == (Len(points) - 1) * samplesPerSegment + 1
         IN  [i \in 1..totalSamples |->
                 getPoint(points, FALSE, Lowest(i - 1, totalSamples - 1))]
\* types.ts:556-574
catmullRomInterpolateClosed(points, samplesPerSegment) ==
    IF Len(points) < 3 THEN [i \in 1..Len(points) |-> clone(points[i])]
    ELSE LET totalSamples == Len(points) * samplesPerSegment
         IN  [i \in 1..totalSamples |->
                 getPoint(points, TRUE, Lowest(i - 1, totalSamples))]

\* types.ts:294-351 on points whose distances need not be rational: the
\* result is kept as its first and last point.  Line 295 returns the clones
\* of fewer than two points, line 306 the first point alone when all the
\* points coincide, and lines 312 and 339-348 make the first point the first
\* of the result and the last point the last.
ResampledEnds(points) ==
    IF Len(points) < 2 THEN points
    ELSE IF \A i \in 1..Len(points) : points[i] = points[1] THEN <<points[1]>>
    ELSE <<points[1], Last(points)>>
\* types.ts:538-543: the Float32Array of the coordinates, point after point
Flattened(points) ==
    [i \in 1..(3 * Len(points)) |-> points[((i - 1) \div 3) + 1][((i - 1) % 3) + 1]]

\* ------------------------------------ MeshGraphBuilder.generateClosedLoop
\* types.ts:467-469
ValidVertices(surfaceVertices) ==
    SelectSeq(surfaceVertices, LAMBDA v : v >= 0 /\ v < Len(positions))
\* types.ts:474-479
RECURSIVE Deduped(_, _, _)
Deduped(validVertices, i, deduped) ==
    IF i > Len(validVertices) THEN deduped
    ELSE IF validVertices[i] # Last(deduped)
    THEN Deduped(validVertices, i + 1, Append(deduped, validVertices[i]))
    ELSE Deduped(validVertices, i + 1, deduped)
\* types.ts:481-483 and 518-522: pop the last element if it repeats the first
WithoutWrap(list) ==
    IF Len(list) > 1 /\ list[1] = Last(list)
    THEN SubSeq(list, 1, Len(list) - 1)
    ELSE list
\* types.ts:507-514: one segment appended, without its first vertex where
\* that is the last of the path so far
AppendSegment(allPathVertices, segment) ==
    IF Len(allPathVertices) > 0 /\ Last(allPathVertices) = segment[1]
    THEN allPathVertices \o Tail(segment)
    ELSE allPathVertices \o segment
\* types.ts:492-515: the body of the loop, for the segment from a vertex to
\* the next
StitchSegment(allPathVertices, from, segment) ==
    IF Len(segment) = 0
    THEN (IF Len(allPathVertices) = 0 \/ Last(allPathVertices) # from
          THEN Append(allPathVertices, from)
          ELSE allPathVertices)
    ELSE AppendSegment(allPathVertices, segment)
\* types.ts:491-516: the segments between consecutive vertices, closing the
\* loop.  Each segment and each path so far is computed once (a value drawn
\* from a set of one element).
RECURSIVE Stitched(_, _, _)
Stitched(deduped, i, allPathVertices) ==
    IF i > Len(deduped) THEN allPathVertices
    ELSE CHOOSE out \in
             {Stitched(deduped, i + 1, next) :
                  next \in {StitchSegment(allPathVertices, deduped[i], segment) :
                               segment \in {shortestPath(deduped[i],
                                                         deduped[(i % Len(deduped)) + 1])}}} :
             TRUE
\* types.ts:526-550: what follows simplifyPath
Smoothed(r) ==
    LET simplifiedPositions == [i \in 1..Len(r.path) |-> At(positions, r.path[i])]
        smoothed == catmullRomInterpolateClosed(simplifiedPositions, 4)
    IN  CHOOSE out \in
            {[status |-> "ok", pathVertices |-> r.path,
              pathPositions |-> Flattened(resampled_)] :
                 resampled_ \in {ResampledEnds(smoothed)}} : TRUE
\* types.ts:485-551, deduped being a value
LoopOf(deduped) ==
    LET null == [status |-> "null", pathVertices |-> <<>>, pathPositions |-> <<>>]
    IN  IF Len(deduped) < 3 THEN null
        ELSE CHOOSE out \in
                 {IF Len(allPathVertices) < 3 THEN null
                  ELSE CHOOSE smoothed \in
                           {IF r.status # "ok"
                            THEN [status |-> r.status, pathVertices |-> <<>>,
                                  pathPositions |-> <<>>]
                            ELSE Smoothed(r) :
                                r \in {simplifyPath(allPathVertices, NoEpsilon)}} : TRUE :
                      allPathVertices \in {WithoutWrap(Stitched(deduped, 1, <<>>))}} : TRUE
\* types.ts:460-551
generateClosedLoop(surfaceVertices) ==
    LET null == [status |-> "null", pathVertices |-> <<>>, pathPositions |-> <<>>]
        validVertices == ValidVertices(surfaceVertices)
    IN  IF Len(surfaceVertices) < 3 THEN null
        ELSE IF Len(validVertices) < 3 THEN null
        ELSE CHOOSE out \in
                 {LoopOf(deduped) :
                      deduped \in {WithoutWrap(Deduped(validVertices, 2,
                                                       <<validVertices[1]>>))}} : TRUE
\* types.ts:270-289
getSmoothPath(s, e, samplesPerSegment) ==
    LET rawPath == shortestPath(s, e)
        raw == [i \in 1..Len(rawPath) |-> clone(At(positions, rawPath[i]))]
    IN  IF Len(rawPath) < 2
        THEN [status |-> "ok", pathVertices |-> rawPath, pathPositions |-> Flattened(raw)]
        ELSE LET r == simplifyPath(rawPath, NoEpsilon)
             IN  IF r.status # "ok"
                 THEN [status |-> r.status, pathVertices |-> <<>>, pathPositions |-> <<>>]
                 ELSE IF Len(r.path) < 2
                 THEN [status |-> "ok", pathVertices |-> rawPath,
                       pathPositions |-> Flattened(raw)]
                 ELSE LET controlPoints == [i \in 1..Len(r.path) |-> At(positions, r.path[i])]
                          smoothed == catmullRomInterpolate(controlPoints, samplesPerSegment)
                      IN  CHOOSE out \in
                              {[status |-> "ok", pathVertices |-> r.path,
                                pathPositions |-> Flattened(resampled_)] :
                                   resampled_ \in {ResampledEnds(smoothed)}} : TRUE

GenerateClosedLoop(surfaceVertices) ==
    /\ pc = "idle"
    /\ pc' = "looped"
    /\ loopCall' = [op |-> "generateClosedLoop", vertices |-> surfaceVertices]
    /\ loop' = generateClosedLoop(surfaceVertices)
    /\ UNCHANGED <<graphVars, searchVars, simplifyVars, solverVars, callerVars,
                   heapVars, resampleVars, storeVars, cliVars>>
\* Variant of GetSmoothPath: the first control point, which is the builder's
\* own vector, is moved to the second.
GetSmoothPathInPlace(s, e, samplesPerSegment) ==
    /\ pc = "idle"
    /\ pc' = "looped"
    /\ loopCall' = [op |-> "getSmoothPath", vertices |-> <<s, e>>]
    /\ loop' = getSmoothPath(s, e, samplesPerSegment)
    /\ positions' = IF Len(loop'.pathVertices) < 2 THEN positions
                    ELSE [positions EXCEPT ![loop'.pathVertices[1] + 1] =
                             At(positions, loop'.pathVertices[2])]
    /\ UNCHANGED <<adjacency, origToMerged, avgEdgeLength, input,
                   searchVars, simplifyVars, solverVars, callerVars,
                   heapVars, resampleVars, storeVars, cliVars>>
GetSmoothPath(s, e, samplesPerSegment) ==
    /\ pc = "idle"
    /\ pc' = "looped"
    /\ loopCall' = [op |-> "getSmoothPath", vertices |-> <<s, e>>]
    /\ loop' = getSmoothPath(s, e, samplesPerSegment)
    /\ UNCHANGED <<graphVars, searchVars, simplifyVars, solverVars, callerVars,
                   heapVars, resampleVars, storeVars, cliVars>>
\* The caller takes the result; that a closed loop was asked for is
\* remembered.
ReturnLoop ==
    /\ pc = "looped"
    /\ pc' = "idle"
    /\ loopCall' = IF loopCall.op = "generateClosedLoop"
                   THEN [loopCall EXCEPT !.vertices = <<>>]
                   ELSE NoLoop
    /\ loop' = NotLooped
    /\ UNCHANGED <<graphVars, searchVars, simplifyVars, solverVars, callerVars,
                   heapVars, resampleVars, storeVars, cliVars>>

\* The builder is made from up to three points whose distances are squares
\* (36, 36 and 64), joined by any of the three edges or by the one triangle;
\* generateClosedLoop takes fewer than MaxSurface entries, in range or not,
\* or MaxSurface vertices of the builder.
Triangle == << <<0, 0, 0>>, <<-32, -16, 4>>, <<32, -16, 4>> >>
MaxSurface == 4
EdgeTriples(count) ==
    {t \in {<<0, 0, 1>>, <<0, 0, 2>>, <<1, 1, 2>>} : t[3] < count}
LoopIndexLists(count) ==
    LET E == EdgeTriples(count)
    IN  {<<>>} \cup {<<t>> : t \in E}
            \cup {<<p[1], p[2]>> : p \in {q \in E \X E : Before(q[1], q[2])}}
            \cup {<<p[1], p[2], p[3]>> :
                      p \in {q \in E \X E \X E : Before(q[1], q[2]) /\ Before(q[2], q[3])}}
            \cup (IF count >= 3 THEN {<< <<0, 1, 2>> >>} ELSE {})
RECURSIVE ListsOver(_, _)
ListsOver(S, m) ==
    IF m = 0 THEN {<<>>}
    ELSE {Append(q, v) : q \in ListsOver(S, m - 1), v \in S}
Surfaces(n, m) ==
    UNION {ListsOver(-1..n, k) : k \in 0..(m - 1)} \cup ListsOver(0..(n - 1), m)
LoopPlaceStep ==
    /\ pc = "unbuilt"
    /\ \E n \in 0..Len(Triangle) :
           \E index \in LoopIndexLists(n) :
               Construct(Geometry(SubSeq(Triangle, 1, n), index))
GenerateClosedLoopStep ==
    /\ pc = "idle"
    /\ \E surfaceVertices \in Surfaces(Len(positions), MaxSurface) :
           GenerateClosedLoop(surfaceVertices)
GetSmoothPathStep ==
    /\ pc = "idle"
    /\ \E s \in -1..Len(positions), e \in -1..Len(positions) : GetSmoothPath(s, e, 4)
NextLoop ==
    \/ LoopPlaceStep
    \/ ShortestPathStep
    \/ Iterate
    \/ Exhausted
    \/ Rebuild
    \/ ReturnPath
    \/ SimplifyPathStep
    \/ ReturnSimplified
    \/ GetSmoothPathStep
    \/ GenerateClosedLoopStep
    \/ ReturnLoop
SpecLoop == Init /\ [][NextLoop]_vars

\* ----------------------------------- SegmentationStore, its operations
\* An application calls the public methods of a store one after another;
\* MaxOps bounds the number of calls of one run.
MaxOps == 5
\* The store after k further calls of saveHistorySnapshot
RECURSIVE Saved(_, _)
Saved(S, k) ==
    IF k = 0 THEN S
    ELSE CHOOSE R \in {Saved(T, k - 1) : T \in {saveHistory(S)}} : TRUE
\* The runs start from a new store, or from one whose history is one
\* snapshot short of maxHistorySize.
Seeds == {0, maxHistorySize - 2}
InitStore == InitOutside /\ \E k \in Seeds : StoreIs(Saved(SegmentationStore, k))
\* One call: the members become those of r.store, the caller gets r.value.
Called(name, r) ==
    /\ ops < MaxOps
    /\ ops' = ops + 1
    /\ state' = r.store.state
    /\ nextId' = r.store.nextId
    /\ history' = r.store.history
    /\ historyIndex' = r.store.historyIndex
    /\ storeRet' = [op |-> name, value |-> r.value]
    /\ UNCHANGED <<solverVars, callerVars, graphVars, searchVars, simplifyVars,
                   heapVars, resampleVars, loopVars, cliVars, pc>>
SaveHistorySnapshot == Called("saveHistorySnapshot", saveHistorySnapshot(Store))
Undo == Called("undo", undo(Store))
Redo == Called("redo", redo(Store))
StartLine == Called("startLine", startLine(Store, TRUE))
FinishLine == Called("finishLine", finishLine(Store))
Clear == Called("clear", clear(Store))
\* removeLine with the id of a line that may or may not exist
RemoveLine == \E n \in 1..2 : Called("removeLine", removeLine(Store, LineId(n)))
\* addControlPoint with a THREE.Vector3
AddControlPoint ==
    Called("addControlPoint", addControlPoint(Store, [x |-> 1, y |-> 0, z |-> 0]))
NextStore ==
    \/ SaveHistorySnapshot
    \/ Undo
    \/ Redo
    \/ StartLine
    \/ FinishLine
    \/ Clear
    \/ RemoveLine
    \/ AddControlPoint
SpecStore == InitStore /\ [][NextStore]_vars

\* ------------------------------------------------- example_geodesic.cpp
\* Texts are sequences of characters.
INT_MAX == 2147483647
isspace(c) == c = " "
isdigit(c) == c \in {"0", "1", "2", "3", "4", "5", "6", "7", "8", "9"}
DigitValue(c) ==
    CHOOSE d \in 0..9 : <<"0", "1", "2", "3", "4", "5", "6", "7", "8", "9">>[d + 1] = c
\* The index of the first character at or after i that is not white space
RECURSIVE SkipSpace(_, _)
SkipSpace(str, i) ==
    IF i <= Len(str) /\ isspace(str[i]) THEN SkipSpace(str, i + 1) ELSE i
\* The digits from i on: how many there are, their value, and whether the
\* value passes INT_MAX
RECURSIVE Digits(_, _, _)
Digits(str, i, got) ==
    IF i > Len(str) \/ ~isdigit(str[i]) THEN got
    ELSE LET d == DigitValue(str[i])
         IN  IF got.over \/ got.value > (INT_MAX - d) \div 10
             THEN Digits(str, i + 1, [got EXCEPT !.count = @ + 1, !.over = TRUE])
             ELSE Digits(str, i + 1, [got EXCEPT !.count = @ + 1,
                                                 !.value = 10 * @ + d])
\* std::stoi(str): white space is skipped, a sign is taken, then the digits
\* up to the first character that is not one; std::invalid_argument without
\* a digit, std::out_of_range when the value is not an int.  (The one text
\* whose value is INT_MIN is not among the arguments drawn.)
stoi(str) ==
    LET i == SkipSpace(str, 1)
        signed == i <= Len(str) /\ str[i] \in {"-", "+"}
        negative == signed /\ str[i] = "-"
        got == Digits(str, IF signed THEN i + 1 ELSE i,
                      [count |-> 0, value |-> 0, over |-> FALSE])
    IN  IF got.count = 0 THEN [status |-> "invalid_argument", value |-> 0]
        ELSE IF got.over THEN [status |-> "out_of_range", value |-> 0]
        ELSE [status |-> "ok", value |-> IF negative THEN 0 - got.value ELSE got.value]
\* uv_geodesic.h:45 and 80: time_scale = 1.0; descent_epsilon = 1e-6, which
\* is below the unit of the field values and acts as 0 on them
DefaultTimeScale == 1
DefaultDescentEpsilon == 0
\* How a run ends: return 0, return 1, or std::terminate for an exception
\* that nothing catches, which aborts the process (SIGABRT)
Exited(run, how) == [run EXCEPT !.stage = "exited", !.exit = how]

\* Lines 10-25: the argument count, the mesh file (readable or not, with V
\* rows and the faces F), the two indices
MainStart(argv, readable, V, F) ==
    /\ cli.stage = "none"
    /\ phase = "idle"
    /\ LET argc == Len(argv)
           run == [cli EXCEPT !.argv = argv]
       IN  cli' = IF argc < 4 THEN Exited(run, "1")
                  ELSE IF ~readable THEN Exited(run, "1")
                  ELSE LET source == stoi(At(argv, 2))
                           target == stoi(At(argv, 3))
                       IN  IF source.status # "ok" \/ target.status # "ok"
                           THEN Exited(run, "SIGABRT")
                           ELSE [run EXCEPT !.stage = "construct",
                                            !.V = V, !.F = F,
                                            !.source = source.value,
                                            !.target = target.value]
    /\ UNCHANGED <<solverVars, callerVars, graphVars, searchVars, simplifyVars,
                   heapVars, resampleVars, loopVars, storeVars, pc>>
\* Line 28
MainConstruct ==
    /\ cli.stage = "construct"
    /\ Initialize(cli.V, cli.F, DefaultTimeScale)
\* Line 29
MainComputeDistance ==
    /\ cli.stage = "distance"
    /\ ComputeDistance(<<cli.source>>)
\* Line 30
MainTracePath ==
    /\ cli.stage = "trace"
    /\ TracePath(cli.distances, cli.source, cli.target, DefaultDescentEpsilon)
\* Lines 28-30 and 58-61: a call returns and main goes on to the next
\* statement, or the call throws and the handler returns 1
MainReturned ==
    /\ cli.stage \in {"construct", "distance", "trace"}
    /\ phase = "returned"
    /\ phase' = "idle"
    /\ call' = NoCall
    /\ ret' = NoRet
    /\ pre' = DefaultState
    /\ cli' = IF ret.status = "error" THEN Exited(cli, "1")
              ELSE IF ret.status = "crash" THEN Exited(cli, "undefined")
              ELSE IF cli.stage = "construct" THEN [cli EXCEPT !.stage = "distance"]
              ELSE IF cli.stage = "distance"
              THEN [cli EXCEPT !.stage = "trace", !.distances = ret.distance]
              ELSE [cli EXCEPT !.stage = "write", !.polyline = ret.polyline]
    /\ UNCHANGED <<solverVars, inits, graphVars, searchVars, simplifyVars,
                   heapVars, resampleVars, loopVars, storeVars, pc>>
\* Lines 36-63: the output file is opened, or not; the path array gets one
\* entry for each point of the polyline
MainWrite(opened) ==
    /\ cli.stage = "write"
    /\ cli' = IF ~opened THEN Exited(cli, "1")
              ELSE Exited([cli EXCEPT !.file =
                              [written |-> TRUE,
                               path |-> [i \in 1..Len(cli.polyline) |->
                                            cli.polyline[i]]]], "0")
    /\ UNCHANGED <<solverVars, callerVars, graphVars, searchVars, simplifyVars,
                   heapVars, resampleVars, loopVars, storeVars, pc>>

\* The texts given for the two indices, and the command lines
IndexTexts ==
    {<<"0">>, <<"1">>, <<" ", "3">>, <<"-", "1">>, <<"7">>, <<"2", "x">>, <<"x">>,
     <<"9", "9", "9", "9", "9", "9", "9", "9", "9", "9", "9">>}
CommandLines ==
    LET exe == <<"e">>
        mesh == <<"m">>
        out == <<"o">>
    IN  {<<exe>>, <<exe, mesh>>}
            \cup {<<exe, mesh, s>> : s \in IndexTexts}
            \cup {<<exe, mesh, s, t>> : s \in IndexTexts, t \in IndexTexts}
            \cup {<<exe, mesh, s, t, out>> : s \in IndexTexts, t \in IndexTexts}
MainStartStep ==
    \E argv \in CommandLines, readable \in BOOLEAN :
        \E V \in 0..MaxVerts : \E F \in FaceLists(V) :
            MainStart(argv, readable, V, F)
MainWriteStep == \E opened \in BOOLEAN : MainWrite(opened)
NextCli ==
    \/ MainStartStep
    \/ MainConstruct
    \/ MainComputeDistance
    \/ MainTracePath
    \/ MainReturned
    \/ MainWriteStep
SpecCli == Init /\ [][NextCli]_vars

\* -------------------------------------------- build, on points that weld
\* Points of the x axis, half an epsilon apart: the keys are -1 for x = -2,
\* 0 for x in {-1, 0} and 1 for x in {1, 2}; distances are whole numbers.
MaxLine == 2
LinePoints == {<<x, 0, 0>> : x \in (0 - MaxLine)..MaxLine}
\* Position lists of up to MaxWeld points take lists of up to MaxLists index
\* triples of any kind; lists of MaxWeld + 1 points take IndexLists.
MaxWeld == 3
MaxLists == 2
TripleLists(count) == UNION {[1..m -> Triples(count)] : m \in 0..MaxLists}
Unindexed(position) ==
    [hasPosition |-> TRUE, position |-> position, indexed |-> FALSE, index |-> <<>>]

getMergedIndex(originalIndex) ==
    IF originalIndex < 0 \/ originalIndex >= Len(origToMerged) THEN -1
    ELSE At(origToMerged, originalIndex)

BuildStep ==
    /\ pc = "unbuilt"
    /\ \/ \E n \in 0..MaxWeld : \E position \in [1..n -> LinePoints] :
             \E index \in TripleLists(n) : Construct(Geometry(position, index))
       \/ \E position \in [1..(MaxWeld + 1) -> LinePoints] :
             \E index \in IndexLists(MaxWeld + 1) :
                 Construct(Geometry(position, index))
       \/ \E position \in [1..3 -> LinePoints] : Construct(Unindexed(position))
       \/ Construct(NoPosition)

NextBuild == BuildStep

SpecBuild == Init /\ [][NextBuild]_vars

\* ====================================================== claims, C1 - C10
Returned(op) == phase = "returned" /\ call.op = op
\* {a, b} is an edge of the cached mesh F_
MeshEdge(a, b) ==
    a # b /\ \E i \in 1..Len(F_) : a \in Range(F_[i]) /\ b \in Range(F_[i])

\* C2 (as claimed): every consecutive pair of the vertex sequence returned by
\* tracePath is an edge of the mesh, for traces that reach source and for
\* traces that stall.
C2_PathIsWalk ==
    (Returned("tracePath") /\ ret.status = "ok") =>
        \A i \in 1..(Len(ret.vertex_indices) - 1) :
            MeshEdge(ret.vertex_indices[i], ret.vertex_indices[i + 1])

\* C3: the sequence returned by tracePath starts with source and ends with
\* target; source is put at the head exactly when the descent walk did not
\* end at source, so source occurs exactly once; the polyline has one point
\* per vertex of the sequence.
C3_SourceAtHeadOnce ==
    (Returned("tracePath") /\ ret.status = "ok") =>
        LET path == ret.vertex_indices
            walk == ret.walk
        IN  /\ Len(path) >= 1
            /\ path[1] = call.source
            /\ Last(path) = call.target
            /\ Count(path, call.source) = 1
            /\ Len(ret.polyline) = Len(path)
            /\ Last(walk) = call.source => path = Reverse(walk)
            /\ Last(walk) # call.source => path = <<call.source>> \o Reverse(walk)

\* A trace that took at least one descent step and then stalled before source.
C3_Witness ==
    /\ Returned("tracePath") /\ ret.status = "ok"
    /\ Len(ret.walk) >= 2
    /\ Last(ret.walk) # call.source
    /\ Len(ret.vertex_indices) = Len(ret.walk) + 1

\* C6 (as claimed): the vector returned by computeDistance has all entries
\* >= 0, minimum exactly 0, and the minimum is attained at a source, for
\* every potential the Poisson solve returns.
C6_ZeroAtSource ==
    (Returned("computeDistance") /\ ret.status = "ok") =>
        /\ \A i \in 1..Len(ret.distance) : ret.distance[i] >= 0
        /\ \E i \in 1..Len(ret.distance) : ret.distance[i] = 0
        /\ \E j \in 1..Len(call.sources) : At(ret.distance, call.sources[j]) = 0

\* Every cached member is the one a build of the cached mesh (V_, F_) makes.
OneBuild ==
    /\ laplace_ = Negated(cotmatrix(V_, F_))
    /\ mass_ = massmatrix(V_, F_)
    /\ time_step_.V = V_ /\ time_step_.F = F_
    /\ heat_matrix_ = HeatMatrix(mass_, time_step_, laplace_)
    /\ poisson_matrix_ = PoissonMatrix(laplace_, mass_)
    /\ heat_solver_ = Compute(heat_matrix_, "Success")
    /\ poisson_solver_ = Compute(poisson_matrix_, "Success")
    /\ grad_ = grad(V_, F_)
    /\ face_areas_ = HalfOf(doublearea(V_, F_))
    /\ face_area_weights_ = Replicated3(face_areas_)
    /\ DOMAIN adjacency_ = 0..(V_ - 1)
    /\ \A a \in 0..(V_ - 1) : \A b \in 0..(V_ - 1) :
           (b \in Range(adjacency_[a])) <=> MeshEdge(a, b)

\* C7 (as claimed): a build is all-or-nothing: after a failed initialize the
\* solver holds no partial state (it is as it was before the call, or empty),
\* and whenever isInitialized() holds, every cached member comes from one
\* build.
C7_AllOrNothing ==
    /\ (Returned("initialize") /\ ret.status = "error") =>
           (SolverState = pre \/ SolverState = DefaultState)
    /\ initialized_ => OneBuild

SourcesRejected(n, sources) ==
    \/ Len(sources) = 0
    \/ \E i \in 1..Len(sources) : sources[i] < 0 \/ sources[i] >= n

C9_TraceErrorsInOrder ==
    Returned("tracePath") =>
        /\ SolverState = pre
        /\ LET n == pre.V IN
           IF ~pre.initialized
           THEN ret = Throw("runtime_error: initialize must be called first")
           ELSE IF Len(call.field) # n
           THEN ret = Throw("invalid_argument: distance_field size mismatch")
           ELSE IF \/ call.source < 0 \/ call.source >= n
                   \/ call.target < 0 \/ call.target >= n
           THEN ret = Throw("out_of_range: vertex index")
           ELSE /\ ret.status # "error"
                /\ ret.status = "ok" =>
                       /\ ret.length = call.field[call.target + 1]
                       /\ ret.vertex_indices # <<>>

\* A field of the right size with a valid source and a target out of range.
C9_Witness ==
    /\ Returned("tracePath")
    /\ pre.initialized
    /\ Len(call.field) = pre.V
    /\ call.source = 0
    /\ call.target = pre.V
    /\ ret.error = "out_of_range: vertex index"

\* C10: a factorization or a solve that reports non-success fails the
\* enclosing call: initialize succeeds only with both factorizations
\* successful, and computeDistance returns a distance only when both of its
\* solves reported success.
C10_NoResultFromFailedSolve ==
    /\ (Returned("initialize") /\ ret.status = "ok") =>
           /\ heat_solver_.info = "Success"
           /\ poisson_solver_.info = "Success"
    /\ (Returned("initialize") /\ ret.status = "error") =>
           ~initialized_ \/ pre.initialized
    /\ (Returned("computeDistance") /\ ret.status = "ok") =>
           /\ ret.heat_info = "Success"
           /\ ret.poisson_info = "Success"
    /\ (Returned("computeDistance") /\ ret.status = "error") =>
           ret.distance = <<>>

\* A heat solve that succeeded followed by a Poisson solve that failed.
C10_Witness ==
    /\ Returned("computeDistance")
    /\ ret.heat_info = "Success"
    /\ ret.poisson_info = "NumericalIssue"
    /\ ret.status = "error"
\* ------------------------------------------------ shortestPath, C1 C4 C5
InRange(v) == 0 <= v /\ v < Len(positions)
\* b is in the neighbour list of a
GraphEdge(a, b) ==
    \E i \in 1..Len(At(adjacency, a)) : At(adjacency, a)[i].v = b
EdgeWeight(a, b) == (CHOOSE x \in Range(At(adjacency, a)) : x.v = b).w
IsGraphPath(p) ==
    /\ \A i \in 1..Len(p) : InRange(p[i])
    /\ \A i \in 1..(Len(p) - 1) : GraphEdge(p[i], p[i + 1])
RECURSIVE PathWeight(_)
PathWeight(p) ==
    IF Len(p) <= 1 THEN 0 ELSE EdgeWeight(p[1], p[2]) + PathWeight(Tail(p))

\* The optimum, by Bellman-Ford rounds over the adjacency structure: d[i] is
\* the least weight of a path from the origin to vertex i - 1 found so far.
Relaxed(d, i) ==
    MinOf({d[i]} \cup {d[j] + EdgeWeight(j - 1, i - 1) :
                          j \in {k \in 1..Len(d) : GraphEdge(k - 1, i - 1)}})
RECURSIVE RelaxAll(_, _)
RelaxAll(d, out) ==
    IF Len(out) = Len(d) THEN out
    ELSE RelaxAll(d, Append(out, Relaxed(d, Len(out) + 1)))
RECURSIVE Rounds(_, _)
Rounds(d, k) == IF k = 0 THEN d ELSE Rounds(RelaxAll(d, <<>>), k - 1)
Optimum(s) ==
    Rounds([Fill(Len(positions), Infinity) EXCEPT ![s + 1] = 0], Len(positions))
Reachable(s, e) == At(Optimum(s), e) < Infinity
Connected ==
    /\ Len(positions) >= 1
    /\ LET d == Optimum(0) IN \A i \in 1..Len(d) : d[i] < Infinity

\* C1: on a connected graph, for every pair of vertices the path returned by
\* shortestPath has total edge weight equal to the minimum over all paths
\* between them.
C1_AStarOptimal ==
    (pc = "returned" /\ InRange(start) /\ InRange(end) /\ Connected) =>
        /\ result # <<>>
        /\ result[1] = start
        /\ Last(result) = end
        /\ IsGraphPath(result)
        /\ PathWeight(result) = At(Optimum(start), end)

\* A returned path of two edges or more on a connected graph that has a
\* strictly heavier two-edge route between the same vertices.
C1_Witness ==
    /\ pc = "returned" /\ InRange(start) /\ InRange(end) /\ Connected
    /\ Len(result) >= 3
    /\ \E x \in 0..(Len(positions) - 1) :
           /\ x \notin Range(result)
           /\ GraphEdge(start, x) /\ GraphEdge(x, end)
           /\ EdgeWeight(start, x) + EdgeWeight(x, end) > PathWeight(result)

\* C4: a non-empty sequence returned by shortestPath starts with start, ends
\* with end, has every consecutive pair joined by an edge of the adjacency
\* structure, and holds no vertex twice.
C4_PathIsSimple ==
    (pc = "returned" /\ result # <<>>) =>
        /\ result[1] = start
        /\ Last(result) = end
        /\ \A i \in 1..(Len(result) - 1) : GraphEdge(result[i], result[i + 1])
        /\ \A i \in 1..Len(result) : Count(result, result[i]) = 1

\* A returned path of at least three vertices.
C4_Witness ==
    /\ pc = "returned"
    /\ Len(result) >= 3

\* C5: shortestPath returns the empty sequence iff start or end is outside
\* [0, n) or end is not reachable from start; it returns [start] when
\* start = end is in range; the range check comes first.
C5_EmptyIffUnreachable ==
    pc = "returned" =>
        /\ result = <<>> <=>
               (~InRange(start) \/ ~InRange(end) \/ ~Reachable(start, end))
        /\ (InRange(start) /\ start = end) => result = <<start>>
        /\ (~InRange(start) /\ start = end) => result = <<>>

\* A search from a vertex that has neighbours, for a vertex of another
\* component, came back empty.
C5_Witness ==
    /\ pc = "returned"
    /\ InRange(start) /\ InRange(end) /\ start # end
    /\ Len(At(adjacency, start)) > 0
    /\ result = <<>>

\* ===================================================== claims, C11 - C20
\* C11: tracePath returns after at most 2n descent steps, n the vertex count,
\* for every distance field and every descent_epsilon (a negative one, under
\* which the descent cycles, included): the walk has at most 2n + 1 vertices
\* and the returned sequence at most 2n + 2.
C11_TraceBounded ==
    (Returned("tracePath") /\ ret.status = "ok") =>
        /\ Len(ret.walk) - 1 <= 2 * V_
        /\ Len(ret.vertex_indices) <= 2 * V_ + 2

\* A descent under a negative epsilon that used all 2n steps going round a
\* cycle, never met source, and had source added: 2n + 2 vertices.
C11_Witness ==
    /\ Returned("tracePath") /\ ret.status = "ok"
    /\ call.eps < 0
    /\ V_ >= 3
    /\ Len(ret.walk) - 1 = 2 * V_
    /\ Len(ret.vertex_indices) = 2 * V_ + 2
    /\ \E i \in 1..(Len(ret.walk) - 2) : ret.walk[i] = ret.walk[i + 2]

\* What a caller gets from a trace that returns (lines 213-220).
GeodesicPath(distance_field, target, path) ==
    [vertex_indices |-> path,
     polyline |-> [i \in 1..Len(path) |-> Row(path[i])],
     length |-> At(distance_field, target)]
Stalled == Last(ret.walk) # call.source
\* No trace of the present solver between the same source and target whose
\* descent reached source returns what the present call returned.
NoReachedTwin ==
    \A g \in {f \in Fields(V_) : ~SizeMismatch(f, V_)}, eps \in EpsVals :
      \A junk_adj \in JunkAdjs, junk_val \in JunkVals(V_) :
        LET d == Descend(g, junk_adj, junk_val, call.source, eps, call.target,
                         0, MaxSteps(V_), <<call.target>>, {})
        IN  Last(d.reversed_path) = call.source =>
                GeodesicPath(g, call.target,
                             Reverse(WithSource(d.reversed_path, call.source)))
                    # GeodesicPath(call.field, call.target, ret.vertex_indices)

\* C12 (as claimed): a stalled trace is told from the returned GeodesicPath
\* alone: its first vertex differs from the requested source, and for the
\* same mesh, source and target its result never equals the result of a
\* trace that reached source.
C12_StallObservable ==
    (Returned("tracePath") /\ ret.status = "ok" /\ Stalled) =>
        /\ ret.vertex_indices[1] # call.source
        /\ NoReachedTwin
\* The second half on its own.
C12_StallHasNoTwin ==
    (Returned("tracePath") /\ ret.status = "ok" /\ Stalled) => NoReachedTwin

\* ------------------------------------------------- build, C13 C14 C15 C16
Built == pc = "idle"
Originals == 0..(Len(input.position) - 1)
\* p and q differ by at most e on each of the three axes
WithinEps(p, q, e) ==
    \A axis \in 1..3 : p[axis] - q[axis] <= e /\ q[axis] - p[axis] <= e

\* C13 (as claimed): after welding with epsilon mergeEps, every two original
\* vertices whose coordinates differ by at most mergeEps on each axis have
\* the same welded index.
C13_WeldsWithinEps ==
    Built =>
        \A i \in Originals, j \in Originals :
            WithinEps(At(input.position, i), At(input.position, j), mergeEps)
                => getMergedIndex(i) = getMergedIndex(j)

\* The lowest-numbered original vertex with the key of original vertex i
FirstOfBucket(i) ==
    MinOf({j \in Originals : key(At(input.position, j)) = key(At(input.position, i))})
\* The keys of the original vertices before i
KeysBefore(i) == {key(At(input.position, j)) : j \in 0..(i - 1)}

\* C14: welding maps original vertex i to the welded index of the
\* lowest-numbered original vertex with the same quantized key; two original
\* vertices share a welded index iff their keys are equal; welded indices are
\* 0..k-1 in order of first appearance; the welded position is the first
\* vertex's position; getMergedIndex(i) is in [0, k) for every original i
\* and -1 for an index outside the original range.
C14_FirstOfBucketIsCanonical ==
    Built =>
        LET n == Len(input.position)
            k == Len(positions)
        IN  /\ Len(origToMerged) = n
            /\ k = Cardinality(KeysBefore(n))
            /\ \A i \in Originals :
                   /\ getMergedIndex(i) = getMergedIndex(FirstOfBucket(i))
                   /\ getMergedIndex(i) = Cardinality(KeysBefore(FirstOfBucket(i)))
                   /\ At(positions, getMergedIndex(i))
                          = At(input.position, FirstOfBucket(i))
                   /\ 0 <= getMergedIndex(i) /\ getMergedIndex(i) < k
            /\ \A i \in Originals, j \in Originals :
                   getMergedIndex(i) = getMergedIndex(j)
                       <=> key(At(input.position, i)) = key(At(input.position, j))
            /\ \A i \in {-2, -1, n, n + 1} : getMergedIndex(i) = -1

\* Three original vertices, the first and the third in one bucket at
\* different places, the second in another: the third got the index and the
\* position of the first.
C14_Witness ==
    /\ Built
    /\ Len(input.position) >= 3
    /\ key(At(input.position, 0)) = key(At(input.position, 2))
    /\ At(input.position, 0) # At(input.position, 2)
    /\ key(At(input.position, 0)) # key(At(input.position, 1))
    /\ origToMerged = <<0, 1, 0>>
    /\ At(positions, 0) = At(input.position, 0)

\* The welded indices of the corners of a triangle are all distinct
DistinctCorners(t) ==
    /\ getMergedIndex(t[1]) # getMergedIndex(t[2])
    /\ getMergedIndex(t[2]) # getMergedIndex(t[3])
    /\ getMergedIndex(t[3]) # getMergedIndex(t[1])
\* The geometry given, with every face whose welded indices are not all
\* distinct removed from its face list
WithoutDegenerate ==
    Geometry(input.position, SelectSeq(Corners(input), DistinctCorners))
SameQuotient(p, q) == p.total * q.count = q.total * p.count
\* The neighbour lists as sets of entries
Entries(adj) == [i \in 1..Len(adj) |-> Range(adj[i])]

\* C15 (as claimed): a face whose three welded indices are not all distinct
\* is dropped whole: the adjacency structure and the mean edge length equal
\* those built from the same face list with every such face removed.
C15_DegenerateFaceDropped ==
    Built =>
        /\ Entries(adjacency) = Entries(build(WithoutDegenerate).adjacency)
        /\ SameQuotient(avgEdgeLength, build(WithoutDegenerate).avgEdgeLength)

\* initialize returns normally only for a mesh with vertices and faces, and
\* a call with an empty mesh leaves the solver as it was (lines 62-64).
SolverRejectsEmpty ==
    (Returned("initialize") /\ (call.V = 0 \/ Len(call.F) = 0)) =>
        /\ ret.status = "error"
        /\ SolverState = pre

\* C16 (as claimed): construction fails whenever the position list or the
\* face list is empty: neither the MeshGraphBuilder constructor nor
\* HeatGeodesicSolver::initialize yields a usable object for a mesh with
\* zero vertices or zero faces.
C16_EmptyMeshRejected ==
    /\ Built => (Len(input.position) > 0 /\ Len(Corners(input)) > 0)
    /\ SolverRejectsEmpty

\* ---------------------------------------------------- adjacency, C17 C18
Welded == 0..(Len(positions) - 1)
\* The welded corner pairs (a, b), (b, c), (c, a) of the faces, as directed
SidesOf(t) ==
    {<<getMergedIndex(t[1]), getMergedIndex(t[2])>>,
     <<getMergedIndex(t[2]), getMergedIndex(t[3])>>,
     <<getMergedIndex(t[3]), getMergedIndex(t[1])>>}
Sides == UNION {SidesOf(Corners(input)[t]) : t \in 1..Len(Corners(input))}
\* The undirected edges of the mesh: the sides with two different ends
MeshEdges == {{p[1], p[2]} : p \in {q \in Sides : q[1] # q[2]}}
EdgeLength(e) ==
    LET a == CHOOSE x \in e : TRUE
        b == CHOOSE x \in e : x # a
    IN  distanceTo(At(positions, a), At(positions, b))
RECURSIVE TotalLength(_)
TotalLength(E) ==
    IF E = {} THEN 0
    ELSE LET e == CHOOSE x \in E : TRUE
         IN  EdgeLength(e) + TotalLength(E \ {e})

\* C17: after build the adjacency structure is symmetric and loop-free: for
\* every entry (b, w) in the list of a there is an entry (a, w) with the
\* same weight in the list of b, and no vertex is its own neighbour.
C17_AdjacencySymmetric ==
    Built =>
        /\ Len(adjacency) = Len(positions)
        /\ \A a \in Welded : \A i \in 1..Len(At(adjacency, a)) :
               LET b == At(adjacency, a)[i].v
                   w == At(adjacency, a)[i].w
               IN  /\ b \in Welded
                   /\ b # a
                   /\ [v |-> a, w |-> w] \in Range(At(adjacency, b))

\* A built graph with a vertex of two neighbours, from a face list that
\* holds a face with two corners welded together.
C17_Witness ==
    /\ Built
    /\ \E a \in Welded : Len(At(adjacency, a)) >= 2
    /\ \E t \in 1..Len(Corners(input)) :
           \E p \in SidesOf(Corners(input)[t]) : p[1] = p[2]

\* C18: after build on any triangle list each undirected edge {a, b} is
\* inserted once: the neighbour list of a holds b at most once (and holds
\* exactly the other ends of the mesh edges at a), and the edge counts once
\* in the edge count and in the total length the mean edge length is made of.
C18_EdgeInsertedOnce ==
    Built =>
        /\ \A a \in Welded :
               /\ \A i \in 1..Len(At(adjacency, a)) :
                      \A j \in 1..Len(At(adjacency, a)) :
                          At(adjacency, a)[i].v = At(adjacency, a)[j].v => i = j
               /\ {x.v : x \in Range(At(adjacency, a))}
                      = {b \in Welded : {a, b} \in MeshEdges /\ b # a}
        /\ MeshEdges # {} =>
               avgEdgeLength = Quotient(TotalLength(MeshEdges),
                                        Cardinality(MeshEdges))
        /\ MeshEdges = {} => avgEdgeLength = DefaultEdgeLength

\* A face list in which one edge is a side of two faces in both
\* orientations, and another side occurs twice in the same orientation.
C18_Witness ==
    /\ Built
    /\ Len(Corners(input)) >= 2
    /\ \E p \in SidesOf(Corners(input)[1]) :
           /\ p[1] # p[2]
           /\ <<p[2], p[1]>> \in SidesOf(Corners(input)[2])
    /\ \E p \in SidesOf(Corners(input)[1]) :
           /\ p[1] # p[2]
           /\ p \in SidesOf(Corners(input)[2])
    /\ Cardinality(MeshEdges) >= 2

\* ------------------------------------------------- simplifyPath, C19 C20
Simplified == pc = "simplified"
\* simplifyPath applied, with the same epsilon, to what the call returned
Again == simplifyPath(simplified.path, simplifyCall.epsilon)

\* C19 (as claimed): for every vertex sequence P and every tolerance eps,
\* simplifyPath(P, eps) returns and simplifyPath(simplifyPath(P, eps), eps)
\* returns the same sequence.
C19_SimplifyIdempotent ==
    Simplified =>
        /\ simplified.status = "ok"
        /\ Again.status = "ok"
        /\ Again.path = simplified.path
\* The same for the calls that return.
C19_IdempotentWhenReturned ==
    (Simplified /\ simplified.status = "ok") =>
        /\ Again.status = "ok"
        /\ Again.path = simplified.path
\* A call with a tolerance that is not negative returns.
C19_ReturnsUnlessNegative ==
    (Simplified /\ ~(simplifyCall.epsilon.given /\ simplifyCall.epsilon.value.total < 0))
        => simplified.status = "ok"

\* The epsilon of the call in flight
EpsilonUsed ==
    IF simplifyCall.epsilon.given THEN simplifyCall.epsilon.value
    ELSE Quotient(avgEdgeLength.total, avgEdgeLength.count * 10)
\* The distance d (squared, a quotient) is greater than the epsilon e
BeyondEps(d, e) ==
    e.total >= 0 => d.total * e.count * e.count > e.total * e.total * d.count
\* The distance of the i-th vertex of the call from the chord s..e
ChordDistance(i, s, e) ==
    LET P == simplifyCall.vertexIndices
    IN  SegmentDistance(At(positions, P[i]), At(positions, P[s]), At(positions, P[e]))

\* C20: simplifyPath returns a subsequence of its input (the vertices at the
\* kept places, in their order) whose first and last elements are the
\* input's; an input of at most two vertices comes back unchanged; an
\* interior vertex is kept only if it was farthest from a chord between two
\* kept vertices, at a distance greater than epsilon.
C20_SimplifyKeepsSubsequence ==
    (Simplified /\ simplified.status = "ok") =>
        LET P == simplifyCall.vertexIndices
            S == simplified.path
            keep == simplified.keep
            places == SortedSeq({i \in 1..Len(P) : keep[i]})
        IN  /\ Len(keep) = Len(P)
            /\ S = [k \in 1..Len(places) |-> P[places[k]]]
            /\ Len(P) >= 1 => (S[1] = P[1] /\ Last(S) = Last(P))
            /\ Len(P) >= 2 => Len(S) >= 2
            /\ Len(P) <= 2 => S = P
            /\ \A i \in 2..(Len(P) - 1) :
                   keep[i] =>
                       \E s \in 1..(i - 1), e \in (i + 1)..Len(P) :
                           /\ keep[s] /\ keep[e]
                           /\ BeyondEps(ChordDistance(i, s, e), EpsilonUsed)
                           /\ \A j \in (s + 1)..(e - 1) :
                                  ~Farther(ChordDistance(j, s, e),
                                           ChordDistance(i, s, e))

\* Four vertices of which one interior vertex was kept and the other
\* dropped, under a positive epsilon.
C20_Witness ==
    /\ Simplified /\ simplified.status = "ok"
    /\ simplifyCall.epsilon.given /\ simplifyCall.epsilon.value.total > 0
    /\ Len(simplifyCall.vertexIndices) = 4
    /\ Len(simplified.path) = 3
    /\ \E i \in 2..3 : ~simplified.keep[i]

\* ===================================================== claims, C21 - C30
\* ---------------------------------------------------- tracePath, C26 C29
\* The cached adjacency lists are those of a mesh of V_ vertices: no read of
\* the trace falls outside the arrays.
NoStrayReads == AdjSize(adjacency_) = V_ /\ ~ReadsPast(V_)
\* The neighbours of c that qualify: distance_field[nb] + eps < distance_field[c]
Qualifying(c) ==
    {nb \in Range(adjacency_[c]) :
        At(call.field, nb) + call.eps < At(call.field, c)}

\* C26 (as claimed): at every step of tracePath from a vertex c the vertex
\* stepped to is a qualifying neighbour of least distance among all the
\* qualifying neighbours of c, whatever the order of the list; the walk stops
\* at c, short of source and of the step bound, iff no neighbour qualifies.
C26_StepsToLeastQualifying ==
    (Returned("tracePath") /\ ret.status = "ok" /\ NoStrayReads) =>
        \A i \in 1..Len(ret.walk) :
            LET c == ret.walk[i]
            IN  /\ i < Len(ret.walk) =>
                       /\ ret.walk[i + 1] \in Qualifying(c)
                       /\ \A nb \in Qualifying(c) :
                              At(call.field, ret.walk[i + 1]) <= At(call.field, nb)
                /\ (i = Len(ret.walk) /\ c # call.source
                        /\ Len(ret.walk) - 1 < MaxSteps(V_)) =>
                       Qualifying(c) = {}

\* C29: for descent_epsilon >= 0 the distance values along the descent walk
\* fall strictly from target to the vertex where the walk ends, each step by
\* more than descent_epsilon; the walk visits no vertex twice, takes at most
\* n - 1 steps and is never cut short by the bound of 2n steps.
C29_WalkDescends ==
    (Returned("tracePath") /\ ret.status = "ok" /\ call.eps >= 0) =>
        /\ \A i \in 1..Len(ret.walk) : Count(ret.walk, ret.walk[i]) = 1
        /\ Len(ret.walk) - 1 <= V_ - 1
        /\ Len(ret.walk) - 1 < MaxSteps(V_)
        /\ NoStrayReads =>
               /\ \A i \in 1..(Len(ret.walk) - 1) :
                      At(call.field, ret.walk[i + 1]) + call.eps
                          < At(call.field, ret.walk[i])
               /\ Last(ret.walk) # call.source =>
                      Qualifying(Last(ret.walk)) = {}
\* C29, witness: a walk of two steps with descent_epsilon >= 0 that stalls
\* short of source.
C29_Witness ==
    /\ Returned("tracePath") /\ ret.status = "ok" /\ call.eps >= 0
    /\ NoStrayReads
    /\ Len(ret.walk) >= 3
    /\ Last(ret.walk) # call.source

\* ------------------------------------------------------------ MinHeap, C27
\* The entries of a heap, and the least key among them
HeapEntries(h) == Range(h.heap)
HeapVertices(h) == {e.v : e \in HeapEntries(h)}
LeastKey(h) == CHOOSE f \in {e.f : e \in HeapEntries(h)} :
                   \A e \in HeapEntries(h) : f <= e.f
\* Each vertex has one entry at most, the index map holds exactly the
\* vertices present, each with its position, and no parent's key exceeds a
\* child's.
WellFormedHeap(h) ==
    /\ \A i, j \in 1..Len(h.heap) : h.heap[i].v = h.heap[j].v => i = j
    /\ DOMAIN h.indexMap = HeapVertices(h)
    /\ \A i \in 1..Len(h.heap) : h.indexMap[h.heap[i].v] = i - 1
    /\ \A i \in 2..Len(h.heap) : h.heap[i \div 2].f <= h.heap[i].f
\* push of a vertex present lowers its key when f is smaller and changes
\* nothing otherwise; push of a vertex absent adds the entry.
PushContract(h, v, f) ==
    LET pushed == push(h, v, f)
    IN  /\ WellFormedHeap(pushed)
        /\ IF v \in HeapVertices(h)
           THEN LET old == h.heap[h.indexMap[v] + 1]
                IN  IF f < old.f
                    THEN HeapEntries(pushed) =
                             (HeapEntries(h) \ {old}) \cup {[v |-> v, f |-> f]}
                    ELSE pushed = h
           ELSE HeapEntries(pushed) = HeapEntries(h) \cup {[v |-> v, f |-> f]}
\* pop removes and returns an entry of least key.
PopContract(h) ==
    LET current == pop(h)
    IN  /\ WellFormedHeap(current.h)
        /\ IF Len(h.heap) = 0
           THEN current.min = undefined /\ current.h = h
           ELSE /\ current.min \in HeapEntries(h)
                /\ current.min.f = LeastKey(h)
                /\ HeapEntries(current.h) = HeapEntries(h) \ {current.min}
                /\ Len(current.h.heap) = Len(h.heap) - 1

\* C27: after any sequence of push and pop the open set is a well-formed
\* indexed min-heap: one entry per vertex at most (a push of a vertex present
\* lowers its key when the new f is smaller and changes nothing otherwise),
\* the index map holds exactly the vertices present with their positions,
\* every parent's f is at most its children's, and pop removes and returns an
\* entry of least f.
C27_HeapWellFormed ==
    /\ WellFormedHeap(openSet)
    /\ \A v \in 0..MaxHeapVert, f \in 0..MaxKey : PushContract(openSet, v, f)
    /\ PopContract(openSet)
\* C27, witness: after a pop, a heap of four entries whose keys are not in
\* array order and whose vertices are not in the order of their keys.
C27_Witness ==
    /\ pc = "unbuilt"
    /\ Len(openSet.heap) = 4
    /\ lastPop # NoPop
    /\ openSet.heap[2].f > openSet.heap[3].f
    /\ openSet.heap[1].f < openSet.heap[3].f
    /\ openSet.heap[1].v > openSet.heap[4].v

\* ------------------------------------------------- shortestPath, C28
\* A search is under way or has just ended: the locals of the call exist.
Searching == pc \in {"search", "rebuild"}
\* The vertex reached from v by k steps along prev (-1 once the chain ended)
RECURSIVE Back(_, _, _)
Back(prevOf, v, k) ==
    IF k = 0 \/ v = -1 THEN v ELSE Back(prevOf, At(prevOf, v), k - 1)
\* What holds of the locals in every state of a search
SearchState ==
    Searching =>
        LET n == Len(positions)
        IN  /\ At(prev, start) = -1
            /\ \A v \in 0..(n - 1) :
                   At(prev, v) # -1 => At(closed, At(prev, v)) = 1
            /\ \A e \in HeapEntries(openSet) : At(closed, e.v) = 0
            /\ Back(prev, end, n) = -1
            /\ At(prev, end) # -1 =>
                   \E k \in 1..(n - 1) : Back(prev, end, k) = start
\* What holds of every step of a search
SearchStep ==
    (Searching /\ Searching') =>
        LET n == Len(positions)
        IN  /\ \A v \in 0..(n - 1) :
                   At(closed, v) = 1 =>
                       /\ At(closed', v) = 1
                       /\ At(gScore', v) = At(gScore, v)
                       /\ At(prev', v) = At(prev, v)
            /\ Cardinality({v \in 0..(n - 1) : At(closed', v) # At(closed, v)}) <= 1

\* C28: throughout a search of shortestPath every vertex is closed at most
\* once (no closed vertex is in the open set, a closed vertex stays closed),
\* the g value and the prev pointer of a closed vertex never change, prev[start]
\* stays -1, and every prev pointer that is set points to a closed vertex; so
\* the chain of prev from end has no cycle and reaches start within n steps.
C28_ClosedOnce == [](SearchState) /\ [][SearchStep]_vars
\* C28, witness: the search ends with three vertices closed and a chain of
\* three vertices from end back to start.
C28_Witness ==
    /\ pc = "rebuild"
    /\ Cardinality({v \in 0..(Len(positions) - 1) : At(closed, v) = 1}) >= 3
    /\ At(prev, end) # -1
    /\ At(prev, At(prev, end)) # -1
    /\ Back(prev, end, 2) = start

\* ------------------------------------------- resampleByArcLength, C21
Resampled == pc = "resampled" /\ resampled.status = "ok"
\* C21 (as claimed): for every polyline of two or more points, whatever its
\* total length, resampleByArcLength returns at least two points, the first
\* equal to the first point of the input and the last equal to its last.
C21_ResampleKeepsEnds ==
    (Resampled /\ Len(resampleCall.points) >= 2) =>
        /\ Len(resampled.points) >= 2
        /\ resampled.points[1] = clone(resampleCall.points[1])
        /\ Last(resampled.points) = clone(Last(resampleCall.points))
\* The same for the polylines of positive total length only.
C21_KeepsEndsOfPositiveLength ==
    (Resampled /\ Len(resampleCall.points) >= 2
         /\ SumOf(SegmentLengths(resampleCall.points), 1) > 0) =>
        /\ Len(resampled.points) >= 2
        /\ resampled.points[1] = clone(resampleCall.points[1])
        /\ Last(resampled.points) = clone(Last(resampleCall.points))

\* ------------------------------------------ generateClosedLoop, C22 C23
ClosedLoopReturned ==
    pc = "looped" /\ loopCall.op = "generateClosedLoop" /\ loop.status = "ok"
\* C22 (as claimed): every result of generateClosedLoop that is not null lists
\* at least three distinct simplified vertices.
C22_ThreeDistinctVertices ==
    ClosedLoopReturned =>
        Cardinality({loop.pathVertices[i] : i \in 1..Len(loop.pathVertices)}) >= 3

\* The square of the distance between the first and the last point of a
\* flattened polyline of quotients
EndsGapSq(flat) ==
    LET n == Len(flat)
        dx == Minus(flat[1], flat[n - 2])
        dy == Minus(flat[2], flat[n - 1])
        dz == Minus(flat[3], flat[n])
    IN  Plus(Plus(Times(dx, dx), Times(dy, dy)), Times(dz, dz))
\* C23 (as claimed): the first and the last point of every polyline that
\* generateClosedLoop returns are within 0.1 x avgEdgeLength of each other.
C23_PolylineCloses ==
    (ClosedLoopReturned /\ Len(loop.pathPositions) >= 3) =>
        ~Below(Quotient(avgEdgeLength.total * avgEdgeLength.total,
                        avgEdgeLength.count * avgEdgeLength.count * 100),
               EndsGapSq(loop.pathPositions))

\* ---------------------------------------------------- shortestPath, C25
GraphKept == pc # "unbuilt" => UNCHANGED <<positions, adjacency, origToMerged, avgEdgeLength>>
PathIsFunctionOfGraph == pc = "returned" => result = shortestPath(start, end)
\* C25: once the graph is built, no step of shortestPath, simplifyPath,
\* getSmoothPath or generateClosedLoop changes positions, adjacency,
\* origToMerged or avgEdgeLength, and the path that shortestPath(start, end)
\* returns is the one that the graph alone determines, whatever was called
\* before.
C25_QueriesReadOnly == [](PathIsFunctionOfGraph) /\ [][GraphKept]_vars
\* C25 (witness): shortestPath returns a path of three vertices after a call
\* of generateClosedLoop has returned.
C25_Witness ==
    /\ pc = "returned"
    /\ loopCall.op = "generateClosedLoop"
    /\ Len(result) = 3

\* ------------------------------------------------ SegmentationStore, C30
\* The index is within the history, which holds at most maxHistorySize
\* entries, and it is -1 only when there is no entry.
HistoryShape ==
    /\ -1 <= historyIndex
    /\ historyIndex <= Len(history) - 1
    /\ Len(history) <= maxHistorySize
    /\ historyIndex = -1 => Len(history) = 0
\* The state that the snapshot at index i of the history restores
Snapshot(i) ==
    [lines |-> deserializeState(parse(history[i + 1].state)).lines,
     currentLineId |-> history[i + 1].currentLineId]
StoreCall(names) == ops' = ops + 1 /\ storeRet'.op \in names
\* undo and redo: FALSE and nothing changed where there is no earlier or
\* later entry, else TRUE, the index moved by one and that snapshot restored
UndoRedoStep ==
    /\ StoreCall({"undo"}) =>
           /\ storeRet'.value = (historyIndex > 0)
           /\ history' = history /\ nextId' = nextId
           /\ IF historyIndex > 0
              THEN historyIndex' = historyIndex - 1 /\ state' = Snapshot(historyIndex')
              ELSE historyIndex' = historyIndex /\ state' = state
    /\ StoreCall({"redo"}) =>
           /\ storeRet'.value = (historyIndex < Len(history) - 1)
           /\ history' = history /\ nextId' = nextId
           /\ IF historyIndex < Len(history) - 1
              THEN historyIndex' = historyIndex + 1 /\ state' = Snapshot(historyIndex')
              ELSE historyIndex' = historyIndex /\ state' = state
\* redo right after a successful undo: the snapshot that was current before
\* the undo, the one after the index, is current again and restored
RedoAfterUndoStep ==
    (storeRet.op = "undo" /\ storeRet.value /\ StoreCall({"redo"})) =>
        /\ storeRet'.value
        /\ historyIndex' = historyIndex + 1
        /\ state' = Snapshot(historyIndex + 1)
\* a save: the entries after the index are gone and the new snapshot, of the
\* state as the call leaves it, is the last entry and the current one
SaveStep ==
    StoreCall({"saveHistorySnapshot", "startLine", "finishLine", "removeLine"}) =>
        LET kept == SubSeq(history, 1, historyIndex + 1)
            entry == [state |-> stringify(serializeState(state')),
                      currentLineId |-> state'.currentLineId]
        IN  /\ history' \in {Append(kept, entry), Tail(Append(kept, entry))}
            /\ historyIndex' = Len(history') - 1
\* C30: after any sequence of store operations the index is between -1 and
\* the last entry of a history of at most 50 entries, and is -1 only when the
\* history is empty; undo and redo return false and change nothing when there
\* is no earlier or later entry; redo right after a successful undo restores
\* the snapshot that was current before the undo; and a save after an undo
\* leaves no entry to redo.
C30_HistoryInvariants ==
    /\ [](HistoryShape)
    /\ [][UndoRedoStep /\ RedoAfterUndoStep /\ SaveStep]_vars
\* C30 (witness): three lines were started on a history one short of full,
\* which dropped its two oldest entries, then an undo was followed by a redo
\* that restored the snapshot of the three lines.
C30_Witness ==
    /\ Len(history) = maxHistorySize
    /\ \A k \in 1..3 :
           Len(parse(history[maxHistorySize - 3 + k].state).lines) = k
    /\ ops = 5
    /\ storeRet.op = "redo"
    /\ storeRet.value
    /\ historyIndex = maxHistorySize - 1
    /\ Len(state.lines) = 3

\* ----------------------------------------------- example_geodesic.cpp, C24
CliExited == cli.stage = "exited"
\* The text is an integer: an optional sign and one or more digits
IsInteger(str) ==
    /\ Len(str) >= 1
    /\ LET from == IF str[1] \in {"-", "+"} THEN 2 ELSE 1
       IN  /\ from <= Len(str)
           /\ \A i \in from..Len(str) : isdigit(str[i])
UsageError ==
    \/ Len(cli.argv) < 4
    \/ ~IsInteger(At(cli.argv, 2))
    \/ ~IsInteger(At(cli.argv, 3))
\* C24 (as claimed): every run ends with exit code 0 or 1; it ends with 1 on
\* a usage error (too few arguments, or an index argument that is not an
\* integer); the file is written only on runs that end with 0, and then its
\* path array has one entry for each point of the polyline.
C24_ExitsZeroOrOne ==
    CliExited =>
        /\ cli.exit \in {"0", "1"}
        /\ UsageError => cli.exit = "1"
        /\ cli.file.written => cli.exit = "0"
        /\ cli.exit = "0" =>
               /\ cli.file.written
               /\ Len(cli.file.path) = Len(cli.polyline)
\* Where std::stoi accepts both index arguments, the run ends with 0 or 1,
\* with 1 for an index out of range, and the file is as claimed.
C24_ExitsWhenIndicesParse ==
    (/\ CliExited
     /\ Len(cli.argv) >= 4 =>
            /\ stoi(At(cli.argv, 2)).status = "ok"
            /\ stoi(At(cli.argv, 3)).status = "ok") =>
        /\ cli.exit \in {"0", "1"}
        /\ Len(cli.argv) < 4 => cli.exit = "1"
        /\ (Len(cli.argv) >= 4 /\
                (OutOfBounds(stoi(At(cli.argv, 2)).value, cli.V)
                   \/ OutOfBounds(stoi(At(cli.argv, 3)).value, cli.V))) =>
               cli.exit = "1"
        /\ cli.file.written => cli.exit = "0"
        /\ cli.exit = "0" =>
               /\ cli.file.written
               /\ Len(cli.file.path) = Len(cli.polyline)

====
